---- MODULE Spec2Model ----
(***************************************************************************)
(* The fetch scheduler of the NEAR indexer node                            *)
(* (packages/node/src/indexer/project.service.ts, class FetchService),     *)
(* together with the block dispatcher and the dictionary it talks to.      *)
(*                                                                         *)
(* Numbers are JavaScript numbers restricted to the integers the scheduler *)
(* computes with.  A field that is `undefined` in the program holds the    *)
(* value Undefined; every comparison with it is false, as in JavaScript.   *)
(* batchSizeScale is kept in tenths (10 stands for 1.0).                   *)
(***************************************************************************)
EXTENDS Integers, Sequences, FiniteSets, TLC

(***************************************************************************)
(* Bounds of the model.                                                    *)
(***************************************************************************)
\* the highest chain head a poll reports
MaxHeight == 9
\* the width of one dictionary query, [start, start + QueryWindow)
QueryWindow == 8
\* the highest chain head of a run with the large batch size
LongChain == 20
\* the height of the block whose handler creates a dynamic datasource
CreationHeight == 3
\* the height of the block at which an unfinalized run finds a fork
ForkHeight == 2

(***************************************************************************)
(* Program constants.                                                      *)
(***************************************************************************)
\* const DICTIONARY_MAX_QUERY_SIZE = 10000, scaled to the model's window
DICTIONARY_MAX_QUERY_SIZE == QueryWindow
MINIMUM_BATCH_SIZE == 5
\* the value of a number field that was never assigned
Undefined == -1
\* Math.max() of no arguments is -Infinity
NegInfinity == -1000000

(***************************************************************************)
(* JavaScript and lodash helpers.                                          *)
(***************************************************************************)
\* a > b on numbers, false when either side is undefined
Gt(a, b) == a # Undefined /\ b # Undefined /\ a > b
Lt(a, b) == a # Undefined /\ b # Undefined /\ a < b
Ge(a, b) == a # Undefined /\ b # Undefined /\ a >= b

Min2(a, b) == IF a < b THEN a ELSE b
Max2(a, b) == IF a > b THEN a ELSE b

SeqToSet(s) == {s[i] : i \in DOMAIN s}

\* Math.max(...s)
MathMax(s) ==
  IF s = <<>> THEN NegInfinity
  ELSE CHOOSE x \in SeqToSet(s) : \A y \in SeqToSet(s) : y <= x

\* Math.min(...s) for a non-empty s
MathMin(s) == CHOOSE x \in SeqToSet(s) : \A y \in SeqToSet(s) : x <= y

\* lodash range(a, b): ascending from a up to b - 1, descending when b < a
Range(a, b) ==
  IF a <= b THEN [i \in 1..(b - a) |-> a + i - 1]
  ELSE [i \in 1..(a - b) |-> a - i + 1]

\* array.slice(0, n)
Slice(s, n) == SubSeq(s, 1, Min2(Len(s), Max2(n, 0)))

\* array.sort((a, b) => a - b)
SortAsc(s) == SortSeq(s, LAMBDA a, b : a < b)

\* lodash without(array, ...values)
Without(s, values) == SelectSeq(s, LAMBDA x : x \notin SeqToSet(values))

\* Math.round(scale * batchSize) with the scale in tenths
RoundScaled(scale, batchSize) == (scale * batchSize + 5) \div 10

StrictlyIncreasing(s) == \A i \in 1..(Len(s) - 1) : s[i] < s[i + 1]

(***************************************************************************)
(* The project: datasources and their handlers.                            *)
(***************************************************************************)
NoValue == "undefined"

Handler(kind, hasFilter, modulo, sender, receiver, type) ==
  [kind |-> kind, hasFilter |-> hasFilter, modulo |-> modulo,
   sender |-> sender, receiver |-> receiver, type |-> type, action |-> NoValue]

\* NearHandlerKind.Block with filter {modulo: m}
BlockModulo(m) == Handler("Block", TRUE, m, NoValue, NoValue, NoValue)
\* NearHandlerKind.Block without a filter
BlockEvery == Handler("Block", FALSE, Undefined, NoValue, NoValue, NoValue)
\* NearHandlerKind.Transaction with filter {sender: s}
TxFrom(s) == Handler("Transaction", TRUE, Undefined, s, NoValue, NoValue)
\* NearHandlerKind.Action with filter {type: t}
ActionOf(t) == Handler("Action", TRUE, Undefined, NoValue, NoValue, t)
\* NearHandlerKind.Action with filter {type: t, action: a}
ActionWith(t, a) == [ActionOf(t) EXCEPT !.action = a]
\* NearHandlerKind.Block with filter {timestamp: a cron string}
BlockCron == Handler("Block", TRUE, Undefined, NoValue, NoValue, NoValue)
\* NearHandlerKind.Transaction with filter {sender: s, receiver: r}
TxBetween(s, r) == Handler("Transaction", TRUE, Undefined, s, r, NoValue)

\* processor.dictionaryQuery(filter, ds) returned undefined, or there is none
NoQueryEntry == [entity |-> "none", conditions |-> {}]

\* a datasource of kind near/Runtime; dictionaryQuery has no part in it
RuntimeDs(startBlock, handlers) ==
  [custom |-> FALSE, startBlock |-> startBlock, handlers |-> handlers,
   dictionaryQuery |-> [i \in DOMAIN handlers |-> NoQueryEntry]]

\* a custom datasource: handlers gives each handler's base kind and
\* baseFilter (handlerProcessors[kind]), dictionaryQuery the entry its
\* processor's dictionaryQuery returns, NoQueryEntry for undefined
CustomDs(startBlock, handlers, dictionaryQuery) ==
  [custom |-> TRUE, startBlock |-> startBlock, handlers |-> handlers,
   dictionaryQuery |-> dictionaryQuery]

\* project.dataSources of the projects the model runs
ProjectDataSources(name) ==
  CASE name = "modulo"   -> << RuntimeDs(1, << BlockModulo(2), BlockModulo(3) >>) >>
    [] name = "every"    -> << RuntimeDs(1, << BlockModulo(1) >>) >>
    [] name = "tx"       -> << RuntimeDs(1, << TxFrom("alice") >>) >>
    [] name = "mixed"    -> << RuntimeDs(1, << BlockModulo(3), TxFrom("alice") >>) >>
    [] name = "block"    -> << RuntimeDs(1, << BlockEvery >>) >>
    [] name = "sparse"   -> << RuntimeDs(1, << BlockModulo(8), TxFrom("alice") >>) >>
    [] OTHER             -> << >>

\* the datasource a handler creates from a template at height h
TemplateDs(h) == RuntimeDs(h, << ActionOf("Transfer") >>)

(***************************************************************************)
(* The configuration of one run: nodeConfig and the project manifest.      *)
(***************************************************************************)
\* the values checkMemoryUsage gives batchSizeScale, in tenths
ScaleValues == {5, 10}
\* metadata.lastProcessedHeight of the dictionary, as it catches up
DictionaryHeights == {2, 7, MaxHeight}

\* project: which dataSources; batchSize, unfinalizedBlocks, scaleBatchSize:
\* nodeConfig; dictionary: project.network.dictionary is set; bypassBlocks:
\* project.network.bypassBlocks; dictionaryGenesis: the dictionary's
\* genesisHash equals the chain's; dictionaryBlocks: the heights the dictionary
\* holds as matching the project's queries
Config(project, size, unfinalized, dictionary, genesis, bypass, blocks) ==
  [project |-> project, batchSize |-> size,
   unfinalizedBlocks |-> unfinalized, dictionary |-> dictionary,
   dictionaryGenesis |-> genesis, bypassBlocks |-> bypass,
   dictionaryBlocks |-> blocks, startHeight |-> 1,
   scaleBatchSize |-> (size > MINIMUM_BATCH_SIZE)]

Configs ==
  {Config(p, 1, FALSE, FALSE, TRUE, b, {}) :
     p \in {"block", "modulo"}, b \in { << >>, << 3 >>, << 2, 6 >> }}
  \cup {Config(p, 1, TRUE, FALSE, TRUE, << >>, {}) : p \in {"block", "modulo"}}
  \cup {Config("every", 6, FALSE, FALSE, TRUE, << >>, {})}
  \cup {Config(p, 1, FALSE, TRUE, TRUE, b, {2, 3, 5}) :
          p \in {"tx", "mixed"}, b \in { << >>, << 3 >> }}
  \cup {Config("tx", 1, FALSE, TRUE, g, << >>, {}) : g \in BOOLEAN}
  \cup {Config("mixed", 1, TRUE, TRUE, TRUE, << >>, {3, 4, 12})}

VARIABLES
  cfg,                         \* nodeConfig and project manifest of the run
  pc,                          \* where fillNextBlockBuffer stands
  latestBestHeight,            \* FetchService.latestBestHeight
  latestFinalizedHeight,       \* FetchService.latestFinalizedHeight
  isShutdown,                  \* FetchService.isShutdown
  batchSizeScale,              \* FetchService.batchSizeScale, in tenths
  templateDynamicDatasouces,   \* FetchService.templateDynamicDatasouces
  dictionaryGenesisMatches,    \* FetchService.dictionaryGenesisMatches
  bypassBlocks,                \* FetchService.bypassBlocks
  dictionaryStartHeight,       \* dictionaryService.startHeight
  mappedDictionaryQueryEntries,\* dictionaryService's query map
  latestBufferedHeight,        \* blockDispatcher.latestBufferedHeight
  queue,                       \* the dispatcher's bounded queue of heights
  query,                       \* the dictionary query in flight
  lastProcessedHeight,         \* the dictionary's metadata.lastProcessedHeight
  dynamicDatasources,          \* what dynamicDsService.getDynamicDatasources gives
  reset,                       \* the resetForNewDs call awaiting its resync
  lastCall,                    \* the latest enqueueBlocks call since the last flush
  enqueuedMax,                 \* highest height enqueued before lastCall since the last flush
  chain,                       \* what the chain holds at each height a worker is asked for
  fetchedBlocks,               \* WorkerService.fetchedBlocks
  isIndexing,                  \* WorkerService._isIndexing
  memoryLock,                  \* memoryLock.isLocked()
  fetchCalls,                  \* the fetchBlock calls of the worker, by call
  blockResponse,               \* how the latest WorkerService.processBlock call ended
  network,                     \* project.network: the endpoints and the chainId
  apiPc,                       \* where ApiService.init stands
  apiIndex,                    \* i of the loop over network.endpoint
  networkMeta,                 \* ApiService.networkMeta
  connections,                 \* the endpoints NearApiConnection.create was called for
  probes,                      \* the endpoints whose status() was read
  endpointToApiIndex,          \* endpointToApiIndex of ApiService.init
  connectionPool,              \* what connectionPoolService was given
  cronSchedule,                \* filter.cronSchedule.schedule of a block handler
  blockFilterResult,           \* how the latest filterBlockTimestamp call ended
  applied                      \* the latest application of a function of the node

\* the state of FetchService, its dispatcher and its dictionary
fetchVars ==
  << cfg, pc, latestBestHeight, latestFinalizedHeight, isShutdown,
     batchSizeScale, templateDynamicDatasouces, dictionaryGenesisMatches,
     bypassBlocks, dictionaryStartHeight, mappedDictionaryQueryEntries,
     latestBufferedHeight, queue, query, lastProcessedHeight,
     dynamicDatasources, reset, lastCall, enqueuedMax >>

\* the state of a WorkerService
workerVars ==
  << chain, fetchedBlocks, isIndexing, memoryLock, fetchCalls, blockResponse >>

\* the state of ApiService.init
apiVars ==
  << network, apiPc, apiIndex, networkMeta, connections, probes,
     endpointToApiIndex, connectionPool >>

\* the state of the block filters and the functions applied to their inputs
utilVars == << cronSchedule, blockFilterResult, applied >>

\* the services the scheduler does not touch
serviceVars == << workerVars, apiVars, utilVars >>

vars == << fetchVars, workerVars, apiVars, utilVars >>

(***************************************************************************)
(* Modulo block handlers.                                                  *)
(***************************************************************************)
RECURSIVE FlattenHandlers(_)
\* [].concat(...dataSources.map((ds) => ds.mapping.handlers))
FlattenHandlers(dataSources) ==
  IF dataSources = << >> THEN << >>
  ELSE Head(dataSources).handlers \o FlattenHandlers(Tail(dataSources))

\* handler.kind === Block && handler.filter && handler.filter.modulo
IsModuloHandler(h) ==
  h.kind = "Block" /\ h.hasFilter /\ h.modulo # Undefined /\ h.modulo # 0

RECURSIVE getModulosOf(_)
getModulosOf(dataSources) ==
  IF dataSources = << >> THEN << >>
  ELSE LET ds == Head(dataSources)
           own == IF ds.custom THEN << >>
                  ELSE SelectSeq(ds.handlers, IsModuloHandler)
       IN [i \in 1..Len(own) |-> own[i].modulo] \o getModulosOf(Tail(dataSources))

getModulos == getModulosOf(ProjectDataSources(cfg.project))

\* getModuloBlocks without the divisibility test
getModuloBlocksEveryHeight(startHeight, endHeight) ==
  IF endHeight > startHeight THEN Range(startHeight, endHeight) ELSE << >>

\* for (let i = startHeight; i < endHeight; i++) if (modulos.find(...)) push(i)
getModuloBlocks(startHeight, endHeight) ==
  LET modulos == getModulos
      span == IF endHeight > startHeight THEN Range(startHeight, endHeight) ELSE << >>
  IN SelectSeq(span, LAMBDA i : \E k \in DOMAIN modulos : i % modulos[k] = 0)

getEnqueuedModuloBlocks(startBlockHeight) ==
  Slice(getModuloBlocks(startBlockHeight,
                        cfg.batchSize * MathMax(getModulos) + startBlockHeight),
        cfg.batchSize)

(***************************************************************************)
(* Batch size, targets and the end of a sequential range.                  *)
(***************************************************************************)
scaledBatchSize ==
  Max2(RoundScaled(batchSizeScale, cfg.batchSize),
       Min2(MINIMUM_BATCH_SIZE, cfg.batchSize * 3))

\* nodeConfig.unfinalizedBlocks ? latestBestHeight : latestFinalizedHeight
latestHeight ==
  IF cfg.unfinalizedBlocks THEN latestBestHeight ELSE latestFinalizedHeight

nextEndBlockHeight(startBlockHeight, scaled) ==
  LET endBlockHeight == startBlockHeight + scaled - 1
  IN IF Gt(endBlockHeight, latestFinalizedHeight)
     THEN IF cfg.unfinalizedBlocks
          THEN IF Ge(endBlockHeight, latestBestHeight)
               THEN latestBestHeight
               ELSE endBlockHeight
          ELSE latestFinalizedHeight
     ELSE endBlockHeight

(***************************************************************************)
(* Bypass blocks.                                                          *)
(***************************************************************************)
\* cleanedBatchBlocks that drops only the bypass heights below the batch's top
cleanedBatchBlocksBelowMax(bypass, currentBatchBlocks) ==
  Without(currentBatchBlocks,
          SelectSeq(bypass, LAMBDA b : b < MathMax(currentBatchBlocks)))

\* node-core cleanedBatchBlocks: without(currentBlockBatch, ...bypassBlocks)
cleanedBatchBlocks(bypass, currentBatchBlocks) ==
  Without(currentBatchBlocks, bypass)

\* pollutedBlocks with b <= Math.max(...currentBatchBlocks)
pollutedBlocksUpToMax(bypass, currentBatchBlocks) ==
  SelectSeq(bypass, LAMBDA b : b <= MathMax(currentBatchBlocks))

\* bypassBlocks.filter((b) => b < Math.max(...currentBatchBlocks))
pollutedBlocks(bypass, currentBatchBlocks) ==
  SelectSeq(bypass, LAMBDA b : b < MathMax(currentBatchBlocks))

\* the batch filteredBlockBatch returns
filteredBlockBatch(bypass, currentBatchBlocks) ==
  IF bypass = << >> THEN currentBatchBlocks
  ELSE cleanedBatchBlocks(bypass, currentBatchBlocks)

\* this.bypassBlocks after filteredBlockBatch
bypassBlocksAfter(bypass, currentBatchBlocks) ==
  IF bypass = << >> THEN bypass
  ELSE Without(bypass, pollutedBlocks(bypass, currentBatchBlocks))

\* getLatestBufferHeight that looks at the cleaned batch only
getLatestBufferHeightOfCleaned(cleaned, rawBatchBlocks) ==
  MathMax(cleaned)

getLatestBufferHeight(cleaned, rawBatchBlocks) ==
  MathMax(cleaned \o rawBatchBlocks)

(***************************************************************************)
(* Dictionary queries.                                                     *)
(***************************************************************************)
\* Object.entries(filter) as equalTo conditions
FilterConditions(h) ==
  (IF h.sender # NoValue THEN {[field |-> "sender", value |-> h.sender]} ELSE {})
  \cup (IF h.receiver # NoValue THEN {[field |-> "receiver", value |-> h.receiver]} ELSE {})
  \cup (IF h.type # NoValue THEN {[field |-> "type", value |-> h.type]} ELSE {})
  \cup (IF h.action # NoValue THEN {[field |-> "action", value |-> h.action]} ELSE {})

txFilterToQueryEntry(h) ==
  [entity |-> "transactions", conditions |-> FilterConditions(h)]

actionFilterToQueryEntry(h) ==
  [entity |-> "actions", conditions |-> FilterConditions(h)]

\* a test of the handlers that lets every block handler through
AbandonsDictionaryButForBlocks(h) ==
  \/ h.kind # "Block" /\ ~h.hasFilter
  \/ h.kind = "Transaction" /\ h.sender = NoValue /\ h.receiver = NoValue
  \/ h.kind = "Action" /\ h.type = NoValue

\* a handler for which buildDictionaryQueryEntries returns []
AbandonsDictionary(h) ==
  \/ ~h.hasFilter
  \/ h.kind = "Block" /\ h.modulo = Undefined
  \/ h.kind = "Transaction" /\ h.sender = NoValue /\ h.receiver = NoValue
  \/ h.kind = "Action" /\ h.type = NoValue

\* the entries a handler of a runtime datasource pushes
HandlerQueryEntries(h) ==
  CASE h.kind = "Transaction" -> {txFilterToQueryEntry(h)}
    [] h.kind = "Action"      -> {actionFilterToQueryEntry(h)}
    [] OTHER                  -> {}

\* dataSource.kind === NearDatasourceKind.Runtime && !!dataSource.mapping.file;
\* the filter's other guard, isRuntimeDataSourceV0_2_0, is the same test on
\* the kind for the older manifest: neither holds of a custom datasource
isRuntimeDataSourceV0_3_0(ds) == ~ds.custom

\* isCustomDs(ds), and processor.dictionaryQuery gives the handler an entry
hasProcessorQuery(ds, i) ==
  ds.custom /\ ds.dictionaryQuery[i] # NoQueryEntry

\* what the handler at position i of ds pushes: the processor's entry, or
\* the entries of its filter, the base filter for a custom datasource
dsHandlerQueryEntries(ds, i) ==
  IF hasProcessorQuery(ds, i) THEN {ds.dictionaryQuery[i]}
  ELSE HandlerQueryEntries(ds.handlers[i])

\* the entries the handlers of ds push
dsQueryEntries(ds) ==
  UNION {dsHandlerQueryEntries(ds, i) : i \in DOMAIN ds.handlers}

\* buildDictionaryQueryEntries over project.dataSources and the given
\* templateDynamicDatasouces; the result as a set (uniqBy entity and conditions)
buildDictionaryQueryEntriesOf(project, templates, startBlock) ==
  LET dataSources == SelectSeq(project, isRuntimeDataSourceV0_3_0)
      filteredDs  == SelectSeq(dataSources \o templates,
                               LAMBDA ds : ds.startBlock <= startBlock)
  IN IF \E d \in DOMAIN filteredDs : \E i \in DOMAIN filteredDs[d].handlers :
          /\ ~hasProcessorQuery(filteredDs[d], i)
          /\ AbandonsDictionary(filteredDs[d].handlers[i])
     THEN {}
     ELSE UNION {dsQueryEntries(filteredDs[d]) : d \in DOMAIN filteredDs}

\* buildDictionaryQueryEntries of the run's project
buildDictionaryQueryEntries(templates, startBlock) ==
  buildDictionaryQueryEntriesOf(ProjectDataSources(cfg.project), templates, startBlock)

\* dictionaryService.buildDictionaryEntryMap: one entry list per startBlock
buildDictionaryEntryMap(templates) ==
  LET all  == ProjectDataSources(cfg.project) \o templates
      keys == {all[i].startBlock : i \in DOMAIN all}
  IN [k \in keys |-> buildDictionaryQueryEntries(templates, k)]

\* dictionaryService.getDictionaryQueryEntries: the list of the highest
\* startBlock at or below the height, [] when there is none
getDictionaryQueryEntries(height) ==
  LET keys == {k \in DOMAIN mappedDictionaryQueryEntries : height >= k}
  IN IF keys = {} THEN {}
     ELSE mappedDictionaryQueryEntries[CHOOSE k \in keys : \A j \in keys : j <= k]

\* useDictionary without the dictionaryGenesisMatches flag
useDictionaryIgnoringGenesis ==
  /\ cfg.dictionary
  /\ getDictionaryQueryEntries(
       IF latestBufferedHeight # Undefined THEN latestBufferedHeight
       ELSE MathMin([i \in DOMAIN ProjectDataSources(cfg.project) |->
                       ProjectDataSources(cfg.project)[i].startBlock])) # {}

useDictionary ==
  /\ cfg.dictionary
  /\ dictionaryGenesisMatches
  /\ getDictionaryQueryEntries(
       IF latestBufferedHeight # Undefined THEN latestBufferedHeight
       ELSE MathMin([i \in DOMAIN ProjectDataSources(cfg.project) |->
                       ProjectDataSources(cfg.project)[i].startBlock])) # {}

RECURSIVE SetToSortedSeq(_)
SetToSortedSeq(S) ==
  IF S = {} THEN << >>
  ELSE LET m == CHOOSE x \in S : \A y \in S : x <= y
       IN << m >> \o SetToSortedSeq(S \ {m})

\* the heights at which the chain has an action a template datasource matches
ActionHeights == {4, 6}

\* the heights the dictionary holds for one query entry
EntryHeights(entry) ==
  IF entry.entity = "transactions" THEN cfg.dictionaryBlocks ELSE ActionHeights

\* batchBlocks of scopedDictionaryEntries(start, queryEndBlock, limit) for the
\* query entries in force when the query was made: the first `limit` distinct
\* heights of [start, queryEndBlock) that match one of the entries and that
\* the dictionary has indexed, ascending
scopedDictionaryEntries(entries, start, queryEndBlock, limit) ==
  Slice(SetToSortedSeq({h \in UNION {EntryHeights(e) : e \in entries} :
                          h >= start /\ h < queryEndBlock /\ h <= lastProcessedHeight}),
        limit)

\* batchBlocks.concat(moduloBlocks).sort((a, b) => a - b)
mergeBatchBlocks(batchBlocks, moduloBlocks) ==
  SortAsc(batchBlocks \o moduloBlocks)

\* dictionaryValidation without the comparison of lastProcessedHeight
dictionaryValidationOfGenesisOnly(startBlockHeight) ==
  cfg.dictionaryGenesis

\* the outcome of dictionaryValidation(dictionary, startBlockHeight) for a
\* response that is not undefined
dictionaryValidation(startBlockHeight) ==
  IF ~cfg.dictionaryGenesis THEN FALSE
  ELSE IF startBlockHeight # Undefined /\ lastProcessedHeight < startBlockHeight
       THEN FALSE
       ELSE TRUE

(***************************************************************************)
(* The block dispatcher.                                                   *)
(***************************************************************************)
queueCapacity == cfg.batchSize * 3

freeSize == Max2(queueCapacity - Len(queue), 0)

getStartBlockHeight ==
  IF latestBufferedHeight # Undefined /\ latestBufferedHeight # 0
  THEN latestBufferedHeight + 1
  ELSE cfg.startHeight

NoCall ==
  [path |-> "none", start |-> Undefined, raw |-> << >>, blocks |-> << >>,
   latestBufferedHeight |-> Undefined, freeSize |-> Undefined,
   scaledBatchSize |-> Undefined, bypass |-> << >>, target |-> Undefined,
   batchBlocks |-> << >>, moduloBlocks |-> << >>, merged |-> << >>,
   endHeight |-> Undefined, dictionary |-> "none", afterLag |-> FALSE,
   entries |-> {}]

\* reset: the reset callback in progress or the last one completed; kind is
\* "newDs" or "fork", discarded the number of heights its flush dropped
NoReset ==
  [pending |-> FALSE, blockHeight |-> Undefined, kind |-> "none", discarded |-> 0]

NoQuery ==
  [startBlockHeight |-> Undefined, queryEndBlock |-> Undefined,
   scaledBatchSize |-> Undefined, moduloBlocks |-> << >>, entries |-> {}]

\* the call ended a cycle whose dictionary response had the chain's genesis
\* hash and was rejected: its lastProcessedHeight was behind the start height
SkippedForLag(call) ==
  call.dictionary = "response" /\ cfg.dictionaryGenesis

\* blockDispatcher.enqueueBlocks(heights, latestBufferHeight); `call` is the
\* record of the call.  A put of more heights than the queue has room for
\* fails and ends the scheduler loop.
enqueueBlocks(heights, latestBufferHeight, call) ==
  /\ lastCall' = [call EXCEPT !.blocks = heights,
                              !.latestBufferedHeight = latestBufferHeight,
                              !.freeSize = freeSize,
                              !.bypass = bypassBlocks,
                              !.target = latestHeight,
                              !.afterLag = lastCall.afterLag \/ SkippedForLag(lastCall)]
  /\ enqueuedMax' = Max2(enqueuedMax, MathMax(lastCall.blocks))
  /\ IF Len(heights) > freeSize
     THEN /\ pc' = "crashed"
          /\ UNCHANGED << queue, latestBufferedHeight >>
     ELSE /\ pc' = "loop"
          /\ queue' = queue \o heights
          /\ latestBufferedHeight' = latestBufferHeight

\* blockDispatcher.flushQueue(height)
flushQueue(height) ==
  /\ queue' = SelectSeq(queue, LAMBDA h : h < height)
  /\ latestBufferedHeight' = height - 1
  /\ lastCall' = NoCall
  /\ enqueuedMax' = Undefined

(***************************************************************************)
(* The initial state: the services are constructed, init has not run.      *)
(***************************************************************************)
\* the heights a worker is asked to fetch and to process
WorkerHeights == 1..3

\* a fetchBlock call that is not under way
NoFetchCall == [pc |-> "idle", sawLock |-> FALSE, sawRelease |-> FALSE, settled |-> "none"]

\* no WorkerService.processBlock call has ended
NoBlockResponse == [height |-> Undefined, outcome |-> "none", fetch |-> "none"]

\* a WorkerService as constructed: nothing fetched, not indexing
WorkerServiceConstructed ==
  /\ chain = [height \in WorkerHeights |-> "block"]
  /\ fetchedBlocks = [height \in WorkerHeights |-> "unset"]
  /\ isIndexing = FALSE
  /\ memoryLock = FALSE
  /\ fetchCalls = [height \in WorkerHeights |-> NoFetchCall]
  /\ blockResponse = NoBlockResponse

\* ApiService.networkMeta before the first endpoint is admitted
NoNetworkMeta == [chain |-> "none", genesisHash |-> "none"]

\* an ApiService as constructed: init has not run
ApiServiceConstructed ==
  /\ network = [endpoint |-> << >>, chainId |-> "none"]
  /\ apiPc = "constructed"
  /\ apiIndex = 0
  /\ networkMeta = NoNetworkMeta
  /\ connections = {}
  /\ probes = {}
  /\ endpointToApiIndex = {}
  /\ connectionPool = {}

\* a cron schedule before generateTimestampReferenceForBlockFilters makes one
NoSchedule == [cron |-> 0, date |-> 0, pristine |-> TRUE]

\* no filterBlockTimestamp call has ended
NoBlockFilterResult ==
  [timestamp |-> Undefined, next |-> Undefined, matched |-> FALSE, lastMatched |-> Undefined]

\* no function has been applied
NotApplied == [function |-> "none"]

\* the block filters before the project is loaded
UtilitiesConstructed ==
  /\ cronSchedule = NoSchedule
  /\ blockFilterResult = NoBlockFilterResult
  /\ applied = NotApplied

\* the scheduler's services as constructed
FetchServiceConstructed ==
  /\ pc = "init"
  /\ latestBestHeight = Undefined
  /\ latestFinalizedHeight = Undefined
  /\ isShutdown = FALSE
  /\ batchSizeScale = 10
  /\ templateDynamicDatasouces = << >>
  /\ dictionaryGenesisMatches = TRUE
  /\ bypassBlocks = << >>
  /\ dictionaryStartHeight = Undefined
  /\ mappedDictionaryQueryEntries = << >>
  /\ latestBufferedHeight = Undefined
  /\ queue = << >>
  /\ query = NoQuery
  /\ lastProcessedHeight = 2
  /\ dynamicDatasources = << >>
  /\ reset = NoReset
  /\ lastCall = NoCall
  /\ enqueuedMax = Undefined

Init ==
  /\ cfg \in Configs
  /\ FetchServiceConstructed
  /\ WorkerServiceConstructed
  /\ ApiServiceConstructed
  /\ UtilitiesConstructed

(***************************************************************************)
(* FetchService.init(startHeight)                                          *)
(***************************************************************************)
\* finalized and best are the heads the first two polls record, Undefined for
\* a poll that failed; metadata tells whether dictionaryService.getMetadata
\* gave the dictionary's metadata
init(finalized, best, metadata) ==
  /\ pc = "init"
  /\ bypassBlocks' = SelectSeq(cfg.bypassBlocks, LAMBDA blk : blk >= cfg.startHeight)
  /\ templateDynamicDatasouces' = dynamicDatasources
  /\ mappedDictionaryQueryEntries' = buildDictionaryEntryMap(dynamicDatasources)
  /\ dictionaryGenesisMatches' = (IF metadata THEN cfg.dictionaryGenesis ELSE TRUE)
  /\ dictionaryStartHeight' =
       (IF metadata /\ dictionaryValidation(Undefined)
        THEN cfg.startHeight ELSE Undefined)
  /\ latestFinalizedHeight' = finalized
  /\ latestBestHeight' = best
  /\ pc' = "loop"
  /\ UNCHANGED << cfg, isShutdown, batchSizeScale, latestBufferedHeight, queue,
                  query, lastProcessedHeight, dynamicDatasources, reset,
                  lastCall, enqueuedMax >>
  /\ UNCHANGED serviceVars

(***************************************************************************)
(* The timers: chain head polls and the batch scale.                       *)
(***************************************************************************)
\* a head that is recorded whatever the poll gave
recordedHeadOfAnyPoll(latest, head) == head

\* try { header = (await api.block(...)).header; if (latest !== header.height)
\* latest = header.height } catch (e) { logger.error(...) }: head is the
\* height of the block the RPC returned, Undefined when it threw
recordedHead(latest, head) ==
  IF head # Undefined /\ latest # head THEN head ELSE latest

\* what getFinalizedBlockHead emits: BlockTarget for a new finalized head
\* when unfinalized blocks are off
finalizedBlockHeadEvents(head) ==
  IF head # Undefined /\ latestFinalizedHeight # head /\ ~cfg.unfinalizedBlocks
  THEN {[event |-> "BlockTarget", height |-> recordedHead(latestFinalizedHeight, head)]}
  ELSE {}

\* what getBestBlockHead emits: BlockBest for a new best head, and
\* BlockTarget as well when unfinalized blocks are on
bestBlockHeadEvents(head) ==
  IF head # Undefined /\ latestBestHeight # head
  THEN {[event |-> "BlockBest", height |-> recordedHead(latestBestHeight, head)]}
       \cup (IF cfg.unfinalizedBlocks
             THEN {[event |-> "BlockTarget", height |-> recordedHead(latestBestHeight, head)]}
             ELSE {})
  ELSE {}

\* FetchService's side of getFinalizedBlockHead
finalizedBlockHead(head) ==
  /\ pc # "init"
  /\ ~isShutdown
  /\ latestFinalizedHeight' = recordedHead(latestFinalizedHeight, head)
  /\ UNCHANGED << cfg, pc, latestBestHeight, isShutdown, batchSizeScale,
                  templateDynamicDatasouces, dictionaryGenesisMatches,
                  bypassBlocks, dictionaryStartHeight,
                  mappedDictionaryQueryEntries, latestBufferedHeight, queue,
                  query, lastProcessedHeight, dynamicDatasources, reset,
                  lastCall, enqueuedMax >>

getFinalizedBlockHead(head) ==
  /\ finalizedBlockHead(head)
  /\ UNCHANGED serviceVars

\* FetchService's side of getBestBlockHead
bestBlockHead(head) ==
  /\ pc # "init"
  /\ ~isShutdown
  /\ latestBestHeight' = recordedHead(latestBestHeight, head)
  /\ UNCHANGED << cfg, pc, latestFinalizedHeight, isShutdown, batchSizeScale,
                  templateDynamicDatasouces, dictionaryGenesisMatches,
                  bypassBlocks, dictionaryStartHeight,
                  mappedDictionaryQueryEntries, latestBufferedHeight, queue,
                  query, lastProcessedHeight, dynamicDatasources, reset,
                  lastCall, enqueuedMax >>

getBestBlockHead(head) ==
  /\ bestBlockHead(head)
  /\ UNCHANGED serviceVars

\* scale is what checkMemoryUsage returns
checkBatchScale(scale) ==
  /\ cfg.scaleBatchSize
  /\ batchSizeScale # scale
  /\ batchSizeScale' = scale
  /\ UNCHANGED << cfg, pc, latestBestHeight, latestFinalizedHeight, isShutdown,
                  templateDynamicDatasouces, dictionaryGenesisMatches,
                  bypassBlocks, dictionaryStartHeight,
                  mappedDictionaryQueryEntries, latestBufferedHeight, queue,
                  query, lastProcessedHeight, dynamicDatasources, reset,
                  lastCall, enqueuedMax >>
  /\ UNCHANGED serviceVars

\* schedulerRegistry.deleteInterval raises for an interval that init has
\* not added
deleteIntervalRaises == pc = "init"

\* the flag of a shutdown that ends where deleteInterval raises
isShutdownUnlessRaised == ~deleteIntervalRaises

\* try { deleteInterval(...); deleteInterval(...) } catch (e) { }
\* this.isShutdown = true
isShutdownAfterShutdown == TRUE

\* FetchService's side of onApplicationShutdown
applicationShutdown ==
  /\ ~isShutdown
  /\ isShutdown' = isShutdownAfterShutdown
  /\ UNCHANGED << cfg, pc, latestBestHeight, latestFinalizedHeight,
                  batchSizeScale, templateDynamicDatasouces,
                  dictionaryGenesisMatches, bypassBlocks, dictionaryStartHeight,
                  mappedDictionaryQueryEntries, latestBufferedHeight, queue,
                  query, lastProcessedHeight, dynamicDatasources, reset,
                  lastCall, enqueuedMax >>

onApplicationShutdown ==
  /\ applicationShutdown
  /\ UNCHANGED serviceVars

(***************************************************************************)
(* FetchService.fillNextBlockBuffer: one action per stretch of the loop    *)
(* between two suspension points.                                          *)
(***************************************************************************)
\* the height of the chain of the run: no scan of the model starts above it
ChainHeight == IF cfg.batchSize = 1 THEN MaxHeight ELSE LongChain

\* the model follows the scans that start at a height of the chain
StartsInChain(startBlockHeight) ==
  startBlockHeight >= 0 /\ startBlockHeight <= ChainHeight

\* the wait test without the comparison of the start height with the target
MustWaitForRoomOnly(startBlockHeight, scaled) ==
  freeSize < scaled

\* dispatcher.freeSize < scaledBatchSize || startBlockHeight > latestHeight
MustWait(startBlockHeight, scaled) ==
  \/ freeSize < scaled
  \/ Gt(startBlockHeight, latestHeight)

\* this.useDictionary && startBlockHeight >= this.dictionaryService.startHeight
TakesDictionaryPath(startBlockHeight) ==
  /\ useDictionary
  /\ Ge(startBlockHeight, dictionaryStartHeight)

\* handlers.length && this.getModulos().length === handlers.length
ModuloOnly ==
  LET handlers == FlattenHandlers(ProjectDataSources(cfg.project))
  IN Len(handlers) # 0 /\ Len(getModulos) = Len(handlers)

\* filteredBlockBatch, getLatestBufferHeight and enqueueBlocks on a raw batch
enqueueBatch(call, enqueuingBlocks) ==
  LET cleaned == filteredBlockBatch(bypassBlocks, enqueuingBlocks)
  IN /\ bypassBlocks' = bypassBlocksAfter(bypassBlocks, enqueuingBlocks)
     /\ enqueueBlocks(cleaned,
                      getLatestBufferHeight(cleaned, enqueuingBlocks),
                      [call EXCEPT !.raw = enqueuingBlocks])

\* the tail of the loop body: nextEndBlockHeight, then the modulo or the
\* sequential enqueue; outcome is how the cycle's dictionary query ended,
\* "none" for a cycle without a query
nonDictionaryPath(startBlockHeight, scaled, outcome) ==
  LET endHeight == nextEndBlockHeight(startBlockHeight, scaled)
      call == [NoCall EXCEPT !.start = startBlockHeight,
                             !.scaledBatchSize = scaled,
                             !.endHeight = endHeight,
                             !.dictionary = outcome]
  IN IF ModuloOnly
     THEN enqueueBatch([call EXCEPT !.path = "modulo"],
                       getEnqueuedModuloBlocks(startBlockHeight))
     ELSE enqueueBatch([call EXCEPT !.path = "sequential"],
                       Range(startBlockHeight, endHeight + 1))

\* a cycle that only sleeps
Wait ==
  /\ pc = "loop"
  /\ ~isShutdown
  /\ MustWait(getStartBlockHeight, scaledBatchSize)
  /\ UNCHANGED << cfg, pc, latestBestHeight, latestFinalizedHeight, isShutdown,
                  batchSizeScale, templateDynamicDatasouces,
                  dictionaryGenesisMatches, bypassBlocks, dictionaryStartHeight,
                  mappedDictionaryQueryEntries, latestBufferedHeight, queue,
                  query, lastProcessedHeight, dynamicDatasources, reset,
                  lastCall, enqueuedMax >>
  /\ UNCHANGED serviceVars

\* a cycle that issues the dictionary query and suspends on it
QueryDictionary ==
  /\ pc = "loop"
  /\ ~isShutdown
  /\ ~MustWait(getStartBlockHeight, scaledBatchSize)
  /\ StartsInChain(getStartBlockHeight)
  /\ TakesDictionaryPath(getStartBlockHeight)
  /\ LET queryEndBlock == getStartBlockHeight + DICTIONARY_MAX_QUERY_SIZE
     IN query' = [startBlockHeight |-> getStartBlockHeight,
                  queryEndBlock |-> queryEndBlock,
                  scaledBatchSize |-> scaledBatchSize,
                  moduloBlocks |-> getModuloBlocks(getStartBlockHeight, queryEndBlock),
                  entries |-> getDictionaryQueryEntries(getStartBlockHeight)]
  /\ pc' = "query"
  /\ UNCHANGED << cfg, latestBestHeight, latestFinalizedHeight, isShutdown,
                  batchSizeScale, templateDynamicDatasouces,
                  dictionaryGenesisMatches, bypassBlocks, dictionaryStartHeight,
                  mappedDictionaryQueryEntries, latestBufferedHeight, queue,
                  lastProcessedHeight, dynamicDatasources, reset,
                  lastCall, enqueuedMax >>
  /\ UNCHANGED serviceVars

\* a cycle off the dictionary
ScanWithoutDictionary ==
  /\ pc = "loop"
  /\ ~isShutdown
  /\ ~MustWait(getStartBlockHeight, scaledBatchSize)
  /\ StartsInChain(getStartBlockHeight)
  /\ ~TakesDictionaryPath(getStartBlockHeight)
  /\ nonDictionaryPath(getStartBlockHeight, scaledBatchSize, "none")
  /\ UNCHANGED << cfg, latestBestHeight, latestFinalizedHeight, isShutdown,
                  batchSizeScale, templateDynamicDatasouces,
                  dictionaryGenesisMatches, dictionaryStartHeight,
                  mappedDictionaryQueryEntries, query, lastProcessedHeight,
                  dynamicDatasources, reset >>
  /\ UNCHANGED serviceVars

\* a test of the start height that never finds it moved
startHeightNeverMoved ==
  FALSE

\* startBlockHeight !== getStartBlockHeight() when the query returns
startHeightMoved ==
  query.startBlockHeight # getStartBlockHeight

\* the query resolves after the start height moved: the result is dropped
DiscardDictionary ==
  /\ pc = "query"
  /\ startHeightMoved
  /\ pc' = "loop"
  /\ query' = NoQuery
  /\ UNCHANGED << cfg, latestBestHeight, latestFinalizedHeight, isShutdown,
                  batchSizeScale, templateDynamicDatasouces,
                  dictionaryGenesisMatches, bypassBlocks, dictionaryStartHeight,
                  mappedDictionaryQueryEntries, latestBufferedHeight, queue,
                  lastProcessedHeight, dynamicDatasources, reset,
                  lastCall, enqueuedMax >>
  /\ UNCHANGED serviceVars

\* the empty-range height with the dictionary's lastProcessedHeight left out
emptyRangeBufferHeightOfQueryEnd(queryEndBlock) ==
  queryEndBlock - 1

\* Math.min(queryEndBlock - 1, dictionary._metadata.lastProcessedHeight)
emptyRangeBufferHeight(queryEndBlock) ==
  Min2(queryEndBlock - 1, lastProcessedHeight)

\* the query returns a response that passes dictionaryValidation
ScanWithDictionary ==
  /\ pc = "query"
  /\ ~startHeightMoved
  /\ dictionaryValidation(query.startBlockHeight)
  /\ LET dictionary == scopedDictionaryEntries(query.entries,
                                               query.startBlockHeight,
                                               query.queryEndBlock,
                                               query.scaledBatchSize)
         batchBlocks == mergeBatchBlocks(dictionary, query.moduloBlocks)
         call == [NoCall EXCEPT !.start = query.startBlockHeight,
                                !.scaledBatchSize = query.scaledBatchSize,
                                !.batchBlocks = dictionary,
                                !.moduloBlocks = query.moduloBlocks,
                                !.merged = batchBlocks,
                                !.dictionary = "response",
                                !.entries = query.entries]
     IN IF Len(batchBlocks) = 0
        THEN /\ enqueueBlocks(<< >>,
                              emptyRangeBufferHeight(query.queryEndBlock),
                              [call EXCEPT !.path = "dictionaryEmpty"])
             /\ UNCHANGED bypassBlocks
        ELSE enqueueBatch([call EXCEPT !.path = "dictionary"],
                          Slice(batchBlocks, Min2(Len(batchBlocks), freeSize)))
  /\ query' = NoQuery
  /\ UNCHANGED << cfg, latestBestHeight, latestFinalizedHeight, isShutdown,
                  batchSizeScale, templateDynamicDatasouces,
                  dictionaryGenesisMatches, dictionaryStartHeight,
                  mappedDictionaryQueryEntries, lastProcessedHeight,
                  dynamicDatasources, reset >>
  /\ UNCHANGED serviceVars

\* the query returns undefined, throws, or returns a response that fails
\* dictionaryValidation: the cycle goes on off the dictionary.  The test of
\* the start height stands inside the try, after the await: a query that
\* throws goes to the catch without it, and the cycle goes on from the start
\* height the query was made for.
FallBackFromDictionary(outcome) ==
  /\ pc = "query"
  /\ outcome # "throw" => ~startHeightMoved
  /\ outcome = "response" => ~dictionaryValidation(query.startBlockHeight)
  /\ dictionaryGenesisMatches' =
       (IF outcome = "response" /\ ~cfg.dictionaryGenesis
        THEN FALSE ELSE dictionaryGenesisMatches)
  /\ nonDictionaryPath(query.startBlockHeight, query.scaledBatchSize, outcome)
  /\ query' = NoQuery
  /\ UNCHANGED << cfg, latestBestHeight, latestFinalizedHeight, isShutdown,
                  batchSizeScale, templateDynamicDatasouces,
                  dictionaryStartHeight, mappedDictionaryQueryEntries,
                  lastProcessedHeight, dynamicDatasources, reset >>
  /\ UNCHANGED serviceVars

\* while (!this.isShutdown) fails: fillNextBlockBuffer returns
Exit ==
  /\ pc = "loop"
  /\ isShutdown
  /\ pc' = "done"
  /\ UNCHANGED << cfg, latestBestHeight, latestFinalizedHeight, isShutdown,
                  batchSizeScale, templateDynamicDatasouces,
                  dictionaryGenesisMatches, bypassBlocks, dictionaryStartHeight,
                  mappedDictionaryQueryEntries, latestBufferedHeight, queue,
                  query, lastProcessedHeight, dynamicDatasources, reset,
                  lastCall, enqueuedMax >>
  /\ UNCHANGED serviceVars

(***************************************************************************)
(* The dispatcher's processing task, dynamic datasources, the dictionary.  *)
(***************************************************************************)
\* the block at the head of the queue is indexed; created tells whether a
\* handler created a dynamic datasource, which calls resetForNewDs(h + 1)
processBlock(created) ==
  /\ queue # << >>
  /\ ~reset.pending
  /\ created => Head(queue) = CreationHeight
  /\ queue' = Tail(queue)
  /\ dynamicDatasources' =
       (IF created THEN Append(dynamicDatasources, TemplateDs(Head(queue)))
        ELSE dynamicDatasources)
  /\ reset' = (IF created
               THEN [pending |-> TRUE, blockHeight |-> Head(queue) + 1,
                     kind |-> "newDs", discarded |-> 0]
               ELSE reset)
  /\ UNCHANGED << cfg, pc, latestBestHeight, latestFinalizedHeight, isShutdown,
                  batchSizeScale, templateDynamicDatasouces,
                  dictionaryGenesisMatches, bypassBlocks, dictionaryStartHeight,
                  mappedDictionaryQueryEntries, latestBufferedHeight, query,
                  lastProcessedHeight, lastCall, enqueuedMax >>
  /\ UNCHANGED serviceVars

\* in unfinalized mode the block at the head of the queue is found to be off
\* the chain: its processing reports reindexBlockHeight, which calls
\* resetForIncorrectBestBlock(reindexBlockHeight).  The model follows the
\* first fork of a run, found at ForkHeight and one or no block deep.
processForkedBlock(reindexBlockHeight) ==
  /\ cfg.unfinalizedBlocks
  /\ queue # << >>
  /\ Head(queue) = ForkHeight
  /\ reset = NoReset
  /\ reindexBlockHeight >= cfg.startHeight
  /\ reindexBlockHeight >= Head(queue) - 1
  /\ reindexBlockHeight <= Head(queue)
  /\ queue' = Tail(queue)
  /\ reset' = [pending |-> TRUE, blockHeight |-> reindexBlockHeight,
               kind |-> "fork", discarded |-> 0]
  /\ UNCHANGED << cfg, pc, latestBestHeight, latestFinalizedHeight, isShutdown,
                  batchSizeScale, templateDynamicDatasouces,
                  dictionaryGenesisMatches, bypassBlocks, dictionaryStartHeight,
                  mappedDictionaryQueryEntries, latestBufferedHeight, query,
                  lastProcessedHeight, dynamicDatasources, lastCall,
                  enqueuedMax >>
  /\ UNCHANGED serviceVars

\* the record of a reset that completed with the flush of the queue
resetCompleted ==
  [reset EXCEPT !.pending = FALSE,
                !.discarded = Cardinality({i \in DOMAIN queue :
                                             queue[i] >= reset.blockHeight})]

\* a reset that returns after updateDictionary, without the flush
resetForNewDsWithoutFlush ==
  /\ reset.pending
  /\ reset.kind = "newDs"
  /\ templateDynamicDatasouces' = dynamicDatasources
  /\ mappedDictionaryQueryEntries' = buildDictionaryEntryMap(dynamicDatasources)
  /\ reset' = resetCompleted
  /\ UNCHANGED << cfg, pc, latestBestHeight, latestFinalizedHeight, isShutdown,
                  batchSizeScale, dictionaryGenesisMatches, bypassBlocks,
                  dictionaryStartHeight, query, lastProcessedHeight,
                  dynamicDatasources, queue, latestBufferedHeight, lastCall,
                  enqueuedMax >>
  /\ UNCHANGED serviceVars

\* resetForNewDs(blockHeight) after its resync has resolved
resetForNewDs ==
  /\ reset.pending
  /\ reset.kind = "newDs"
  /\ templateDynamicDatasouces' = dynamicDatasources
  /\ mappedDictionaryQueryEntries' = buildDictionaryEntryMap(dynamicDatasources)
  /\ flushQueue(reset.blockHeight)
  /\ reset' = resetCompleted
  /\ UNCHANGED << cfg, pc, latestBestHeight, latestFinalizedHeight, isShutdown,
                  batchSizeScale, dictionaryGenesisMatches, bypassBlocks,
                  dictionaryStartHeight, query, lastProcessedHeight,
                  dynamicDatasources >>
  /\ UNCHANGED serviceVars

\* resetForIncorrectBestBlock(blockHeight) after its resync has resolved
resetForIncorrectBestBlock ==
  /\ reset.pending
  /\ reset.kind = "fork"
  /\ templateDynamicDatasouces' = dynamicDatasources
  /\ mappedDictionaryQueryEntries' = buildDictionaryEntryMap(dynamicDatasources)
  /\ flushQueue(reset.blockHeight)
  /\ reset' = resetCompleted
  /\ UNCHANGED << cfg, pc, latestBestHeight, latestFinalizedHeight, isShutdown,
                  batchSizeScale, dictionaryGenesisMatches, bypassBlocks,
                  dictionaryStartHeight, query, lastProcessedHeight,
                  dynamicDatasources >>
  /\ UNCHANGED serviceVars

\* the dictionary indexes further blocks
DictionaryAdvances(height) ==
  /\ cfg.dictionary
  /\ height > lastProcessedHeight
  /\ lastProcessedHeight' = height
  /\ UNCHANGED << cfg, pc, latestBestHeight, latestFinalizedHeight, isShutdown,
                  batchSizeScale, templateDynamicDatasouces,
                  dictionaryGenesisMatches, bypassBlocks, dictionaryStartHeight,
                  mappedDictionaryQueryEntries, latestBufferedHeight, queue,
                  query, dynamicDatasources, reset, lastCall,
                  enqueuedMax >>
  /\ UNCHANGED serviceVars

\* the heads the chain reports to a poll
Heads == IF cfg.batchSize = 1 THEN {2, 5, ChainHeight} ELSE {ChainHeight}

\* a poll fails, or reports a head that is not behind the one recorded
HeadsFrom(latest) ==
  {Undefined} \cup {h \in Heads : latest = Undefined \/ h >= latest}

\* the best head is followed step by step where the scheduler reads it
BestHeadsFrom(latest) ==
  IF cfg.unfinalizedBlocks THEN HeadsFrom(latest)
  ELSE HeadsFrom(latest) \cap {Undefined, ChainHeight}

Next ==
  \/ \E finalized \in HeadsFrom(Undefined), best \in BestHeadsFrom(Undefined),
        metadata \in BOOLEAN :
       /\ metadata => cfg.dictionary
       /\ init(finalized, best, metadata)
  \/ \E head \in HeadsFrom(latestFinalizedHeight) : getFinalizedBlockHead(head)
  \/ \E head \in BestHeadsFrom(latestBestHeight) : getBestBlockHead(head)
  \/ \E scale \in ScaleValues : checkBatchScale(scale)
  \/ onApplicationShutdown
  \/ Wait
  \/ QueryDictionary
  \/ ScanWithoutDictionary
  \/ DiscardDictionary
  \/ ScanWithDictionary
  \/ \E outcome \in {"response", "undefined", "throw"} : FallBackFromDictionary(outcome)
  \/ Exit
  \/ \E created \in BOOLEAN : processBlock(created)
  \/ resetForNewDs
  \/ \E height \in 1..MaxHeight : processForkedBlock(height)
  \/ resetForIncorrectBestBlock
  \/ \E height \in DictionaryHeights : DictionaryAdvances(height)

Spec == Init /\ [][Next]_vars

(***************************************************************************)
(* Properties of the scheduler.  lastCall is the latest enqueueBlocks call *)
(* since the last flush: start is the scan's start height, raw the batch   *)
(* before filteredBlockBatch, blocks the heights passed, bypass the bypass *)
(* list and freeSize and target the dispatcher's room and the latest       *)
(* target height when the call was made.                                   *)
(***************************************************************************)
Called == lastCall.path # "none"

\* the modulos of the project's block handlers, read off the manifest
HandlerModulos ==
  LET handlers == FlattenHandlers(ProjectDataSources(cfg.project))
  IN {handlers[i].modulo : i \in {j \in DOMAIN handlers : handlers[j].kind = "Block"
                                                          /\ handlers[j].hasFilter
                                                          /\ handlers[j].modulo > 0}}

\* C1: between two flushes the heights passed to enqueueBlocks, taken over
\* successive scans on any path, are strictly increasing: each call's list is
\* strictly increasing and starts above every height passed before it.
C1_EnqueuedStrictlyIncreasing ==
  Called =>
    /\ StrictlyIncreasing(lastCall.blocks)
    /\ \A i \in DOMAIN lastCall.blocks : lastCall.blocks[i] > enqueuedMax

\* C2: on the dictionary path with a validated response the list the
\* scheduler enqueues from is the ascending, duplicate-free union of the
\* dictionary's batchBlocks and the modulo heights of
\* [start, start + DICTIONARY_MAX_QUERY_SIZE).
C2_MergeIsSortedUnion ==
  lastCall.path \in {"dictionary", "dictionaryEmpty"} =>
    lastCall.merged =
      SetToSortedSeq(
        SeqToSet(lastCall.batchBlocks)
        \cup {h \in lastCall.start..(lastCall.start + DICTIONARY_MAX_QUERY_SIZE - 1) :
                \E m \in HandlerModulos : h % m = 0})

\* C3: every height passed to enqueueBlocks, on any path, is at most the
\* latest target height (finalized head, or best head in unfinalized mode) at
\* the time of the call.
C3_EnqueuedAtMostTarget ==
  (Called /\ lastCall.target # Undefined) =>
    \A i \in DOMAIN lastCall.blocks : lastCall.blocks[i] <= lastCall.target

\* C4: the list passed to enqueueBlocks after filteredBlockBatch holds no
\* height of the bypass list the scan started with.
C4_CleanedAvoidsBypass ==
  Called => SeqToSet(lastCall.blocks) \cap SeqToSet(lastCall.bypass) = {}

\* a scan whose raw batch met its bypass list
C4_Witness ==
  /\ Called
  /\ SeqToSet(lastCall.raw) \cap SeqToSet(lastCall.bypass) # {}
  /\ lastCall.blocks # << >>

\* C5: a scan that enqueues from a non-empty raw batch passes the maximum of
\* the raw batch as latestBufferedHeight, also when that maximum is bypassed,
\* and the dispatcher then holds it, so the next scan starts above it.
C5_BufferedHeightIsRawMax ==
  (Called /\ lastCall.raw # << >>) =>
    /\ lastCall.latestBufferedHeight \in SeqToSet(lastCall.raw)
    /\ \A i \in DOMAIN lastCall.raw : lastCall.raw[i] <= lastCall.latestBufferedHeight
    /\ pc # "crashed" =>
         /\ latestBufferedHeight = lastCall.latestBufferedHeight
         /\ getStartBlockHeight > lastCall.latestBufferedHeight

\* a scan whose highest raw height was bypassed
C5_Witness ==
  /\ Called
  /\ lastCall.raw # << >>
  /\ lastCall.latestBufferedHeight \in SeqToSet(lastCall.bypass)
  /\ lastCall.latestBufferedHeight \notin SeqToSet(lastCall.blocks)
  /\ pc = "loop"

\* the scans that went through filteredBlockBatch with a raw batch
Filtered == Called /\ lastCall.raw # << >>

\* C6 as stated: after a scan applied the bypass list to a raw batch with
\* maximum M, the remaining bypass list holds no height at or below M and
\* keeps every bypass height above M.
C6_BypassConsumedUpToMax ==
  Filtered =>
    /\ \A i \in DOMAIN bypassBlocks : bypassBlocks[i] > lastCall.latestBufferedHeight
    /\ \A i \in DOMAIN lastCall.bypass :
         lastCall.bypass[i] > lastCall.latestBufferedHeight
           => lastCall.bypass[i] \in SeqToSet(bypassBlocks)

\* C6 amended: after a scan applied the bypass list to a raw batch with
\* maximum M, the remaining bypass list is the old one without its heights
\* strictly below M: a bypass height equal to M stays listed.
C6_BypassConsumedBelowMax ==
  Filtered =>
    bypassBlocks =
      SelectSeq(lastCall.bypass, LAMBDA b : b >= lastCall.latestBufferedHeight)

\* a scan whose raw maximum is itself a bypass height, with a lower bypass
\* height consumed or a higher one kept
C6_Witness ==
  /\ Filtered
  /\ lastCall.latestBufferedHeight \in SeqToSet(lastCall.bypass)
  /\ lastCall.latestBufferedHeight \in SeqToSet(bypassBlocks)

\* every handler of the project is a block handler with a modulo filter
AllHandlersModulo ==
  LET handlers == FlattenHandlers(ProjectDataSources(cfg.project))
  IN /\ handlers # << >>
     /\ \A i \in DOMAIN handlers :
          /\ handlers[i].kind = "Block"
          /\ handlers[i].hasFilter
          /\ handlers[i].modulo > 0

\* C7: when every handler is a block handler with a modulo filter, every
\* height enqueued off the dictionary is divisible by one of the modulos.
C7_ModuloOnlyHeightsDivisible ==
  (AllHandlersModulo /\ lastCall.path \in {"modulo", "sequential"}) =>
    \A i \in DOMAIN lastCall.blocks :
      \E m \in HandlerModulos : lastCall.blocks[i] % m = 0

\* a modulo-only project with two modulos has enqueued heights
C7_Witness ==
  /\ AllHandlersModulo
  /\ Cardinality(HandlerModulos) > 1
  /\ lastCall.path = "modulo"
  /\ lastCall.blocks # << >>
  /\ enqueuedMax # Undefined

\* C8: from the top of a cycle in which dispatcher.freeSize < scaledBatchSize
\* or the start height is above the latest target, no step makes an
\* enqueueBlocks call or issues a dictionary query or changes the bypass list,
\* and latestBufferedHeight changes only by a flush.
C8_WaitingCycleDoesNothing ==
  [][ ( /\ pc = "loop"
        /\ \/ freeSize < scaledBatchSize
           \/ Gt(getStartBlockHeight, latestHeight) )
      => /\ pc' \in {"loop", "done"}
         /\ bypassBlocks' = bypassBlocks
         /\ \/ lastCall' = lastCall /\ latestBufferedHeight' = latestBufferedHeight
            \/ reset.pending /\ ~reset'.pending ]_vars

\* the scheduler at the top of a cycle, after earlier scans, with the queue
\* too full and the start height above the target
C8_Witness ==
  /\ pc = "loop"
  /\ ~isShutdown
  /\ Called
  /\ freeSize < scaledBatchSize
  /\ Gt(getStartBlockHeight, latestHeight)

\* C9: every enqueueBlocks call passes at most dispatcher.freeSize heights,
\* on every path and for every batchSize and batch scale.
C9_EnqueueWithinFreeSize ==
  Called => Len(lastCall.blocks) <= lastCall.freeSize

\* C10: on the sequential path off the dictionary the end height is
\* min(start + scaledBatchSize - 1, latest target).
C10_EndHeightIsMin ==
  (lastCall.path = "sequential" /\ lastCall.target # Undefined) =>
    lastCall.endHeight =
      Min2(lastCall.start + lastCall.scaledBatchSize - 1, lastCall.target)

\* C11: a scan on the dictionary path whose validated response and modulo
\* heights are both empty enqueues no height and advances
\* latestBufferedHeight to
\* min(start + DICTIONARY_MAX_QUERY_SIZE - 1, metadata.lastProcessedHeight).
C11_EmptyRangeAdvances ==
  [][ (pc = "query" /\ pc' # "query" /\ lastCall'.path = "dictionaryEmpty") =>
        /\ lastCall'.batchBlocks = << >>
        /\ lastCall'.moduloBlocks = << >>
        /\ lastCall'.blocks = << >>
        /\ queue' = queue
        /\ latestBufferedHeight' =
             (IF lastCall'.start + DICTIONARY_MAX_QUERY_SIZE - 1 < lastProcessedHeight
              THEN lastCall'.start + DICTIONARY_MAX_QUERY_SIZE - 1
              ELSE lastProcessedHeight) ]_vars

\* an empty range was skipped up to the dictionary's lastProcessedHeight,
\* which is below the end of the queried range
C11_Witness ==
  /\ lastCall.path = "dictionaryEmpty"
  /\ lastCall.start > 1
  /\ latestBufferedHeight = lastProcessedHeight
  /\ lastProcessedHeight < lastCall.start + DICTIONARY_MAX_QUERY_SIZE - 1
  /\ queue = << >>

\* C12: once dictionaryValidation has seen a genesisHash that differs from
\* the chain's (which clears dictionaryGenesisMatches), the flag stays cleared,
\* useDictionary is false for the rest of the session, no dictionary query is
\* issued and no scan enqueues from a dictionary response.
C12_GenesisMismatchDisablesDictionary ==
  [][ ~dictionaryGenesisMatches =>
        /\ ~dictionaryGenesisMatches'
        /\ ~useDictionary
        /\ ~useDictionary'
        /\ pc' # "query"
        /\ lastCall' # lastCall =>
             lastCall'.path \notin {"dictionary", "dictionaryEmpty"} ]_vars

\* a response with a foreign genesisHash was rejected in an earlier cycle and
\* a later cycle scanned off the dictionary, the project having dictionary
\* queries for the height
C12_Witness ==
  /\ cfg.dictionary
  /\ ~cfg.dictionaryGenesis
  /\ ~dictionaryGenesisMatches
  /\ useDictionaryIgnoringGenesis
  /\ lastCall.path = "sequential"
  /\ enqueuedMax # Undefined
  /\ pc = "loop"

C14_MovedStartDiscardsResult ==
  [][ ( /\ pc = "query"
        /\ pc' # "query"
        /\ query.startBlockHeight # getStartBlockHeight )
      => /\ pc' = "loop"
         /\ lastCall' = lastCall
         /\ queue' = queue
         /\ latestBufferedHeight' = latestBufferedHeight
         /\ bypassBlocks' = bypassBlocks
         /\ dictionaryGenesisMatches' = dictionaryGenesisMatches ]_vars

\* a query is in flight for a start height that a completed reset has moved
C14_Witness ==
  /\ pc = "query"
  /\ ~reset.pending
  /\ query.startBlockHeight # getStartBlockHeight
  /\ dynamicDatasources # << >>

\* C15: every enqueue from a dictionary response uses a response that was
\* requested with the query entries in force for its start height: after
\* resetForNewDs has rebuilt the entries for a new datasource, no result
\* requested with the old entries is enqueued from.
C15_EnqueueUsesRebuiltEntries ==
  lastCall.path \in {"dictionary", "dictionaryEmpty"} =>
    lastCall.entries = getDictionaryQueryEntries(lastCall.start)

\* C16: when resetForNewDs(h) or resetForIncorrectBestBlock(h) completes,
\* every buffered height at or above h is discarded and none below it,
\* latestBufferedHeight is h - 1 and the start height is h, whatever was
\* enqueued while the reset awaited the resync; and the first scan that
\* enqueues after the reset starts at h.
C16_ResetFlushesFromHeight ==
  [][ /\ (reset.pending /\ ~reset'.pending) =>
           /\ queue' = SelectSeq(queue, LAMBDA b : b < reset.blockHeight)
           /\ \A i \in DOMAIN queue' : queue'[i] < reset.blockHeight
           /\ latestBufferedHeight' = reset.blockHeight - 1
           /\ getStartBlockHeight' = reset.blockHeight
      /\ ( /\ ~reset.pending
           /\ reset.kind # "none"
           /\ lastCall.path = "none"
           /\ lastCall'.path # "none" ) =>
           lastCall'.start = reset.blockHeight ]_vars

\* a rollback has dropped buffered heights and the scheduler has scanned
\* again from the rollback height
C16_Witness ==
  /\ ~reset.pending
  /\ reset.kind = "fork"
  /\ reset.discarded > 0
  /\ lastCall.path # "none"
  /\ lastCall.start = reset.blockHeight
  /\ lastCall.blocks # << >>

(***************************************************************************)
(* WorkerService (worker.service.ts).  A fetchBlock call goes from idle to *)
(* queued (queue.put), then waits for the memory lock (waitForUnlock, then *)
(* unlocked once the lock's release has resolved the wait) or starts the   *)
(* chain fetch at once (fetchBlocks), and is idle again when the fetch has *)
(* settled.  sawLock tells whether the task found the lock held, whether   *)
(* the code tested it or not, sawRelease whether the lock was released     *)
(* while the call waited, and settled how the height's latest fetch ended. *)
(***************************************************************************)
\* nodeConfig.batchSize: the tasks the worker's AutoQueue runs at a time
WorkerBatchSize == 2

\* a second fetchBlock call made for a height while the first is under way
RepeatedCall == 4

\* the height argument of a fetchBlock call
HeightOf(call) == IF call = RepeatedCall THEN 1 ELSE call

\* the tasks the AutoQueue has started and not finished
RunningTasks ==
  {call \in DOMAIN fetchCalls :
     fetchCalls[call].pc \in {"waitForUnlock", "unlocked", "fetchBlocks"}}

\* a lock that is never found held
isLockedNever == FALSE

\* memoryLock.isLocked()
isLocked == memoryLock

\* fetchBlock(height): the task is put on the worker's queue
fetchBlock(call) ==
  /\ fetchCalls[call].pc = "idle"
  /\ fetchCalls' = [fetchCalls EXCEPT ![call].pc = "queued",
                                      ![call].sawLock = FALSE,
                                      ![call].sawRelease = FALSE]
  /\ UNCHANGED << chain, fetchedBlocks, isIndexing, memoryLock, blockResponse >>
  /\ UNCHANGED << fetchVars, apiVars, utilVars >>

\* the queue runs the task up to its first await: a held entry ends it, a
\* held lock makes it wait, otherwise apiService.fetchBlocks([height]) starts
runFetchTask(call) ==
  /\ fetchCalls[call].pc = "queued"
  /\ Cardinality(RunningTasks) < WorkerBatchSize
  /\ fetchCalls' =
       [fetchCalls EXCEPT
          ![call].pc = IF fetchedBlocks[HeightOf(call)] = "block" THEN "idle"
                       ELSE IF isLocked THEN "waitForUnlock"
                       ELSE "fetchBlocks",
          ![call].sawLock = fetchedBlocks[HeightOf(call)] # "block" /\ memoryLock]
  /\ UNCHANGED << chain, fetchedBlocks, isIndexing, memoryLock, blockResponse >>
  /\ UNCHANGED << fetchVars, apiVars, utilVars >>

\* a writer takes the memory lock
memoryLockAcquire ==
  /\ ~memoryLock
  /\ memoryLock' = TRUE
  /\ UNCHANGED << chain, fetchedBlocks, isIndexing, fetchCalls, blockResponse >>
  /\ UNCHANGED << fetchVars, apiVars, utilVars >>

\* the writer releases it: every waitForUnlock() is resolved
memoryLockRelease ==
  /\ memoryLock
  /\ memoryLock' = FALSE
  /\ fetchCalls' =
       [call \in DOMAIN fetchCalls |->
          IF fetchCalls[call].pc = "waitForUnlock"
          THEN [fetchCalls[call] EXCEPT !.pc = "unlocked", !.sawRelease = TRUE]
          ELSE fetchCalls[call]]
  /\ UNCHANGED << chain, fetchedBlocks, isIndexing, blockResponse >>
  /\ UNCHANGED << fetchVars, apiVars, utilVars >>

\* the task goes on after await memoryLock.waitForUnlock(): the lock is not
\* tested again, apiService.fetchBlocks([height]) starts
waitForUnlock(call) ==
  /\ fetchCalls[call].pc = "unlocked"
  /\ fetchCalls' = [fetchCalls EXCEPT ![call].pc = "fetchBlocks"]
  /\ UNCHANGED << chain, fetchedBlocks, isIndexing, memoryLock, blockResponse >>
  /\ UNCHANGED << fetchVars, apiVars, utilVars >>

\* getBlockByHeight: the block, or the error of api.block thrown again
getBlockByHeight(height, failure) ==
  IF failure \/ chain[height] = "unavailable" THEN "throw" ELSE "block"

\* fetchBlocksBatches over fetchBlocksArray: every block wrapped, or the error
fetchBlocksBatches(height, failure) == getBlockByHeight(height, failure)

\* apiService.fetchBlocks([height]) settles: the block is stored, or the
\* error is caught and logged by fetchBlock
fetchBlocks(call, failure) ==
  /\ fetchCalls[call].pc = "fetchBlocks"
  /\ LET block == fetchBlocksBatches(HeightOf(call), failure) IN
       /\ fetchedBlocks' = IF block = "throw" THEN fetchedBlocks
                           ELSE [fetchedBlocks EXCEPT ![HeightOf(call)] = block]
       /\ fetchCalls' = [fetchCalls EXCEPT ![call].pc = "idle",
                                           ![call].settled = block]
  /\ UNCHANGED << chain, isIndexing, memoryLock, blockResponse >>
  /\ UNCHANGED << fetchVars, apiVars, utilVars >>

\* how the fetchBlock call made for the height ended, "none" without a call
settledFetch(height) ==
  IF height \in DOMAIN fetchCalls THEN fetchCalls[height].settled ELSE "none"

\* the response of processBlock for a block that is unavailable in the chain
UnavailableResponse(height) ==
  [height |-> height, outcome |-> "unavailable", fetch |-> settledFetch(height)]

\* delete this.fetchedBlocks[height] left out
fetchedBlocksKept(height) == fetchedBlocks

\* delete this.fetchedBlocks[height]
fetchedBlocksWithout(height) == [fetchedBlocks EXCEPT ![height] = "unset"]

\* WorkerService.processBlock(height) up to indexerManager.indexBlock: a null
\* entry gives the unavailable response, a missing one raises, a block is
\* taken out of fetchedBlocks and indexed
WorkerService_processBlock(height) ==
  /\ ~isIndexing
  /\ LET block == fetchedBlocks[height] IN
       CASE block = "null" ->
              /\ blockResponse' = UnavailableResponse(height)
              /\ UNCHANGED << fetchedBlocks, isIndexing >>
         [] block = "unset" ->
              /\ blockResponse' = [UnavailableResponse(height) EXCEPT !.outcome = "raised"]
              /\ UNCHANGED << fetchedBlocks, isIndexing >>
         [] OTHER ->
              /\ blockResponse' = [UnavailableResponse(height) EXCEPT !.outcome = "indexing"]
              /\ fetchedBlocks' = fetchedBlocksWithout(height)
              /\ isIndexing' = TRUE
  /\ UNCHANGED << chain, memoryLock, fetchCalls >>
  /\ UNCHANGED << fetchVars, apiVars, utilVars >>

\* indexerManager.indexBlock settles: its response is returned, or its error
\* is logged and thrown again; finally _isIndexing is false
indexBlock(failure) ==
  /\ isIndexing
  /\ blockResponse' =
       [blockResponse EXCEPT !.outcome = IF failure THEN "raised" ELSE "indexed"]
  /\ isIndexing' = FALSE
  /\ UNCHANGED << chain, fetchedBlocks, memoryLock, fetchCalls >>
  /\ UNCHANGED << fetchVars, apiVars, utilVars >>

\* a worker over a chain some of whose blocks are unavailable
WorkerInit ==
  /\ cfg = CHOOSE config \in Configs : TRUE
  /\ FetchServiceConstructed
  /\ ApiServiceConstructed
  /\ UtilitiesConstructed
  /\ chain \in [WorkerHeights -> {"block", "unavailable"}]
  /\ fetchedBlocks = [height \in WorkerHeights |-> "unset"]
  /\ isIndexing = FALSE
  /\ memoryLock = FALSE
  /\ fetchCalls = [height \in WorkerHeights |-> NoFetchCall]
  /\ blockResponse = NoBlockResponse

WorkerNext ==
  \/ \E call \in DOMAIN fetchCalls : fetchBlock(call)
  \/ \E call \in DOMAIN fetchCalls : runFetchTask(call)
  \/ memoryLockAcquire
  \/ memoryLockRelease
  \/ \E call \in DOMAIN fetchCalls : waitForUnlock(call)
  \/ \E call \in DOMAIN fetchCalls, failure \in BOOLEAN : fetchBlocks(call, failure)
  \/ \E height \in WorkerHeights : WorkerService_processBlock(height)
  \/ \E failure \in BOOLEAN : indexBlock(failure)

SpecWorker == WorkerInit /\ [][WorkerNext]_vars

\* C17: a processBlock call for a height whose fetch has settled and whose
\* block is unavailable in the chain returns the response with a null block
\* hash and does not raise.
C17_UnavailableBlockSkipped ==
  ( /\ blockResponse.outcome # "none"
    /\ blockResponse.fetch # "none"
    /\ chain[blockResponse.height] = "unavailable" ) =>
      blockResponse.outcome = "unavailable"


\* the step starts the chain fetch of the height's fetchBlock call
FetchStarts(height) ==
  /\ fetchCalls[height].pc # "fetchBlocks"
  /\ fetchCalls'[height].pc = "fetchBlocks"

MaxEndpoints == 3

\* what an endpoint can answer
Endpoints == [chain_id : {"mainnet", "testnet"}, genesisHash : {"hashA", "hashB"}]

\* the endpoint lists of a project
EndpointLists == UNION {[1..n -> Endpoints] : n \in 1..MaxEndpoints}

\* connection.networkMeta of the connection made to an endpoint
ConnectionNetworkMeta(endpoint) ==
  [chain |-> endpoint.chain_id, genesisHash |-> endpoint.genesisHash]

\* network.chainId && network.chainId !== this.networkMeta.chain
chainIdMismatch(meta) ==
  network.chainId # "none" /\ network.chainId # meta.chain

\* a comparison of genesis hashes that never fails
genesisHashMismatchNever(genesisHash) == FALSE

\* this.networkMeta.genesisHash !== genesisHash
genesisHashMismatch(genesisHash) == networkMeta.genesisHash # genesisHash

\* init() is called: the loop over network.endpoint starts
ApiService_init ==
  /\ apiPc = "constructed"
  /\ apiPc' = "create"
  /\ apiIndex' = 1
  /\ UNCHANGED << network, networkMeta, connections, probes, endpointToApiIndex,
                  connectionPool >>
  /\ UNCHANGED << fetchVars, workerVars, utilVars >>

\* await NearApiConnection.create(endpoint, this.fetchBlocksBatches), and
\* ApiConnected is emitted
NearApiConnection_create ==
  /\ apiPc = "create"
  /\ connections' = connections \cup {apiIndex}
  /\ apiPc' = "status"
  /\ UNCHANGED << network, apiIndex, networkMeta, probes, endpointToApiIndex,
                  connectionPool >>
  /\ UNCHANGED << fetchVars, workerVars, utilVars >>

\* a pool that is given every endpoint as soon as it is admitted
addToConnectionsAtOnce(batch, index) == batch

\* connectionPoolService.addBatchToConnections(endpointToApiIndex), called
\* once, after the loop has admitted the last endpoint
addBatchToConnections(batch, index) ==
  IF index < Len(network.endpoint) THEN connectionPool ELSE batch

\* endpointToApiIndex[endpoint] = connection, then the next endpoint or, after
\* the last, connectionPoolService.addBatchToConnections(endpointToApiIndex)
admitEndpoint ==
  /\ endpointToApiIndex' = endpointToApiIndex \cup {apiIndex}
  /\ connectionPool' = addBatchToConnections(endpointToApiIndex', apiIndex)
  /\ IF apiIndex < Len(network.endpoint)
     THEN /\ apiIndex' = apiIndex + 1
          /\ apiPc' = "create"
     ELSE /\ apiPc' = "done"
          /\ UNCHANGED apiIndex

\* await api.status() gives chain_id; the first endpoint gives networkMeta
\* and is compared with network.chainId; a later one goes on to its genesis block
status ==
  /\ apiPc = "status"
  /\ probes' = probes \cup {apiIndex}
  /\ LET endpoint == network.endpoint[apiIndex]
         chainId == endpoint.chain_id
     IN IF networkMeta = NoNetworkMeta
        THEN /\ networkMeta' = ConnectionNetworkMeta(endpoint)
             /\ IF chainIdMismatch(networkMeta')
                THEN /\ apiPc' = "chainIdError"
                     /\ UNCHANGED << apiIndex, endpointToApiIndex, connectionPool >>
                ELSE admitEndpoint
        ELSE /\ apiPc' = "block"
             /\ UNCHANGED << apiIndex, networkMeta, endpointToApiIndex, connectionPool >>
  /\ UNCHANGED << network, connections >>
  /\ UNCHANGED << fetchVars, workerVars, utilVars >>

\* await api.block({ blockId: GENESIS_BLOCK }) of a later endpoint: its hash
\* is compared with networkMeta.genesisHash
block ==
  /\ apiPc = "block"
  /\ LET genesisHash == network.endpoint[apiIndex].genesisHash
     IN IF genesisHashMismatch(genesisHash)
        THEN /\ apiPc' = "genesisHashError"
             /\ UNCHANGED << apiIndex, endpointToApiIndex, connectionPool >>
        ELSE admitEndpoint
  /\ UNCHANGED << network, networkMeta, connections, probes >>
  /\ UNCHANGED << fetchVars, workerVars, utilVars >>

\* an ApiService over the endpoints and the chainId of some project
ApiInit ==
  /\ cfg = CHOOSE config \in Configs : TRUE
  /\ FetchServiceConstructed
  /\ WorkerServiceConstructed
  /\ UtilitiesConstructed
  /\ network \in [endpoint : EndpointLists, chainId : {"none", "mainnet"}]
  /\ apiPc = "constructed"
  /\ apiIndex = 0
  /\ networkMeta = NoNetworkMeta
  /\ connections = {}
  /\ probes = {}
  /\ endpointToApiIndex = {}
  /\ connectionPool = {}

ApiNext ==
  \/ ApiService_init
  \/ NearApiConnection_create
  \/ status
  \/ block

SpecApi == ApiInit /\ [][ApiNext]_vars

\* the endpoints after the first whose genesis hash is not the first's
GenesisMismatches ==
  {k \in 2..Len(network.endpoint) :
     network.endpoint[k].genesisHash # network.endpoint[1].genesisHash}

\* the first endpoint passes the comparison with the declared chainId
FirstEndpointAccepted ==
  network.chainId \in {"none", network.endpoint[1].chain_id}

\* C19: when the first endpoint is accepted and ek, k > 1, is the first
\* endpoint whose hash at the genesis height differs from the one recorded
\* from e1, init fails with the genesis hash mismatch at ek, creates no
\* connection to and probes no endpoint after ek, and hands nothing to the
\* pool.
C19_FailsAtFirstGenesisMismatch ==
  /\ []( (FirstEndpointAccepted /\ GenesisMismatches # {}) =>
           LET k == CHOOSE m \in GenesisMismatches : \A n \in GenesisMismatches : m <= n
           IN /\ connections \subseteq 1..k
              /\ probes \subseteq 1..k
              /\ endpointToApiIndex \subseteq 1..(k - 1)
              /\ connectionPool = {}
              /\ apiIndex <= k
              /\ apiPc \notin {"done", "chainIdError"}
              /\ apiPc = "genesisHashError" => apiIndex = k )
  /\ [][ (apiPc = "block" /\ apiIndex \in GenesisMismatches) =>
           apiPc' = "genesisHashError" ]_vars

\* init has failed at the second of three endpoints, the third untouched
C19_Witness ==
  /\ apiPc = "genesisHashError"
  /\ apiIndex = 2
  /\ Len(network.endpoint) = 3
  /\ connections = {1, 2}
  /\ probes = {1, 2}

\* C20: no endpoint whose chain id differs from the declared chainId is
\* admitted to the pool, whatever its place in the list.
C20_PoolHoldsDeclaredChainOnly ==
  network.chainId # "none" =>
    \A i \in connectionPool : network.endpoint[i].chain_id = network.chainId

(***************************************************************************)
(* Block filters with a cron timestamp (filterBlockTimestamp and           *)
(* generateTimestampReferenceForBlockFilters).  Time is counted in minutes;*)
(* the cron string of the filter fires every cron minutes, so its slots    *)
(* are the multiples of cron.  A schedule is the cursor of the cron        *)
(* library: date, and pristine until next or prev has moved it.            *)
(***************************************************************************)
\* the latest block timestamp
MaxTime == 12

\* the periods of the cron strings
CronPeriods == {2, 3}

\* the timestamps of the blocks at startBlock
ReferenceTimes == 0..3

\* the first slot at or after a time, the last slot at or before it
SlotFrom(cron, time) == ((time + cron - 1) \div cron) * cron
SlotUntil(cron, time) == (time \div cron) * cron

\* cron.schedule(timestampReference)
Schedule(cron, timestampReference) ==
  [cron |-> cron, date |-> timestampReference, pristine |-> TRUE]

\* schedule.next(): the next slot, never the cursor's own unless pristine
schedule_next(schedule) ==
  [schedule EXCEPT
     !.date = SlotFrom(schedule.cron, IF schedule.pristine THEN @ ELSE @ + 1),
     !.pristine = FALSE]

\* a rewind that leaves the cursor where it is
schedule_stay(schedule) == [schedule EXCEPT !.pristine = FALSE]

\* schedule.prev(): the slot before the cursor
schedule_prev(schedule) ==
  [schedule EXCEPT !.date = SlotUntil(schedule.cron, @ - 1), !.pristine = FALSE]

\* a log line that does not read the schedule
loggedWithoutNext(schedule) == schedule

\* the log line `Next block will be indexed at ${filter.cronSchedule.next}`
\* reads the getter a second time
loggedNext(schedule) == schedule_next(schedule)

\* Date.parse(this.schedule.next().format()) on the schedule as it stands:
\* a slot has no seconds, so the text gives the slot back
PeekNext(schedule) == schedule_next(schedule).date

\* the project is loaded: the handler's filter gets its schedule
generateTimestampReferenceForBlockFilters(cron, timestampReference) ==
  /\ cronSchedule = NoSchedule
  /\ cronSchedule' = Schedule(cron, timestampReference)
  /\ UNCHANGED << blockFilterResult, applied >>
  /\ UNCHANGED << fetchVars, workerVars, apiVars >>

\* the schedule as filterBlockTimestamp leaves it: the getter read, read
\* again by the log line of a match, then schedule.prev()
scheduleAfterFilter(schedule, timestamp) ==
  LET read == schedule_next(schedule)
      logged == IF timestamp > read.date THEN loggedNext(read) ELSE read
  IN schedule_prev(logged)

\* what filterBlockTimestamp finds and returns
blockFilterResultOf(schedule, timestamp) ==
  LET read == schedule_next(schedule)
      matched == timestamp > read.date
  IN [timestamp |-> timestamp, next |-> read.date, matched |-> matched,
      lastMatched |-> IF matched THEN read.date
                      ELSE blockFilterResult.lastMatched]

\* filterBlockTimestamp(block, filter) for a block with header.timestamp
filterBlockTimestamp(timestamp) ==
  /\ cronSchedule # NoSchedule
  /\ cronSchedule' = scheduleAfterFilter(cronSchedule, timestamp)
  /\ blockFilterResult' = blockFilterResultOf(cronSchedule, timestamp)
  /\ UNCHANGED applied
  /\ UNCHANGED << fetchVars, workerVars, apiVars >>

CronInit ==
  /\ cfg = CHOOSE config \in Configs : TRUE
  /\ FetchServiceConstructed
  /\ WorkerServiceConstructed
  /\ ApiServiceConstructed
  /\ UtilitiesConstructed

CronNext ==
  \/ \E cron \in CronPeriods, timestampReference \in ReferenceTimes :
       generateTimestampReferenceForBlockFilters(cron, timestampReference)
  \/ \E timestamp \in 0..MaxTime : filterBlockTimestamp(timestamp)

SpecCron == CronInit /\ [][CronNext]_vars

\* the step is an evaluation of filterBlockTimestamp that shows in the state
Evaluates ==
  /\ cronSchedule # NoSchedule
  /\ << cronSchedule, blockFilterResult >>' # << cronSchedule, blockFilterResult >>

\* C21: once a block has matched, an evaluation with a block time below the
\* slot after the matched one gives no match, and one with a block time
\* above that slot gives a match and moves the schedule's next slot to the
\* one that follows.
C21_MatchThenNextSlot ==
  [][ (blockFilterResult.lastMatched # Undefined /\ Evaluates) =>
        LET slot == blockFilterResult.lastMatched + cronSchedule.cron
            time == blockFilterResult'.timestamp
        IN /\ time < slot => ~blockFilterResult'.matched
           /\ time > slot =>
                /\ blockFilterResult'.matched
                /\ blockFilterResult'.lastMatched = slot
                /\ PeekNext(cronSchedule') = slot + cronSchedule.cron ]_vars

\* after the match of slot 3, a block above the following slot, 6, has
\* matched
C21_Witness ==
  /\ blockFilterResult.matched
  /\ cronSchedule.cron = 3
  /\ blockFilterResult.lastMatched = 6
  /\ blockFilterResult.timestamp = 8

\* C22: an evaluation that does not match leaves the schedule's cursor and
\* its next slot where they were, and one that matches moves the next slot
\* on by exactly one slot.
C22_CursorMovesByOneSlotOnMatch ==
  [][ Evaluates =>
        IF blockFilterResult'.matched
        THEN PeekNext(cronSchedule') = PeekNext(cronSchedule) + cronSchedule.cron
        ELSE /\ PeekNext(cronSchedule') = PeekNext(cronSchedule)
             /\ ~cronSchedule.pristine => cronSchedule' = cronSchedule ]_vars

\* a block in the same slot has been evaluated again without a match and
\* the cursor stands where the match left it
C22_Witness ==
  /\ ~blockFilterResult.matched
  /\ blockFilterResult.lastMatched = 3
  /\ blockFilterResult.timestamp = 5
  /\ cronSchedule = [cron |-> 3, date |-> 3, pristine |-> FALSE]

(***************************************************************************)
(* Functions of the node applied to inputs drawn from small sets.  applied *)
(* records the latest application: the function, its arguments and what it *)
(* returned or threw.  A value that is thrown is the record Thrown(message).*)
(***************************************************************************)
Thrown(message) == [thrown |-> message]
IsThrown(value) == DOMAIN value = {"thrown"}
\* what a helper hands back to its caller when it does not throw
Returned(value) == [returned |-> value]

\* the starting state of the functions' specification
FunctionsInit ==
  /\ cfg = CHOOSE config \in Configs : TRUE
  /\ FetchServiceConstructed
  /\ WorkerServiceConstructed
  /\ ApiServiceConstructed
  /\ UtilitiesConstructed

\* what an application leaves alone
FunctionsFrame ==
  /\ UNCHANGED << cronSchedule, blockFilterResult >>
  /\ UNCHANGED << fetchVars, workerVars, apiVars >>

(***************************************************************************)
(* wrapAction and parseNearAction.  A wire action is a string or an object;*)
(* an object is the list of its entries in key order.                      *)
(***************************************************************************)
\* the cases of parseNearAction
NearActionTypes ==
  {"CreateAccount", "DeployContract", "FunctionCall", "Transfer", "Stake",
   "AddKey", "DeleteKey", "DeleteAccount"}

\* the keys of the wire objects: the known types and two others
WireKeys == NearActionTypes \cup {"Delegate", "transfer"}

\* the payloads of the wire objects; EmptyObject is {}
EmptyObject == "{}"
WirePayloads == {EmptyObject, "payload"}

WireString(text) == [string |-> TRUE, text |-> text, entries |-> << >>]
WireObject(entries) == [string |-> FALSE, text |-> "", entries |-> entries]

\* the wire actions: strings, and objects of no, one or two entries
WireActions ==
  {WireString(text) : text \in {"CreateAccount", "Transfer", ""}}
  \cup {WireObject(<< >>)}
  \cup {WireObject(<< [key |-> k, value |-> v] >>) : k \in WireKeys, v \in WirePayloads}
  \cup {WireObject(<< [key |-> k, value |-> v], [key |-> "Stake", value |-> "payload"] >>) :
          k \in {"Transfer", "Delegate"}, v \in WirePayloads}

\* Object.keys(action): the keys of an object, the indices of a string
ObjectKeys(action) ==
  IF action.string
  THEN (IF action.text = "" THEN << >> ELSE << "0" >>)
  ELSE [i \in DOMAIN action.entries |-> action.entries[i].key]

\* action[type]
Member(action, type) ==
  IF action.string THEN "character"
  ELSE IF \E i \in DOMAIN action.entries : action.entries[i].key = type
       THEN action.entries[CHOOSE i \in DOMAIN action.entries :
                             action.entries[i].key = type].value
       ELSE NoValue

\* a decoder that lets every type through
parseNearActionOfAnyType(type, action) == Returned(action)

\* parseNearAction(type, action)
parseNearAction(type, action) ==
  IF type \in NearActionTypes THEN Returned(action)
  ELSE Thrown("Invalid type string for NearAction")

\* wrapAction(action, id, transaction)
wrapAction(action, id, transaction) ==
  LET type == IF action = WireString("CreateAccount") THEN "CreateAccount"
              ELSE IF ObjectKeys(action) = << >> THEN NoValue
              ELSE ObjectKeys(action)[1]
      actionValue == IF action = WireString("CreateAccount")
                     THEN parseNearAction(type, EmptyObject)
                     ELSE parseNearAction(type, Member(action, type))
  IN IF IsThrown(actionValue) THEN actionValue
     ELSE [id |-> id, type |-> type, action |-> actionValue.returned,
           transaction |-> transaction]

\* wrapAction is applied to the action at index id of a transaction
ApplyWrapAction(action, id, transaction) ==
  /\ applied = NotApplied
  /\ applied' = [function |-> "wrapAction", action |-> action, id |-> id,
                 transaction |-> transaction,
                 result |-> wrapAction(action, id, transaction)]
  /\ FunctionsFrame

\* the transactions an action belongs to
WrappedTransactions == {"txA", "txB"}

\* C23: wrapAction gives {id, type: 'CreateAccount', action: {}, transaction}
\* for the string 'CreateAccount'; for an object with a single key it gives
\* that key as type and the key's value as action; it throws for every type
\* that is not one of the eight known ones, and what it returns has a
\* known type.
C23_WrapActionDecodes ==
  applied.function = "wrapAction" =>
    LET action == applied.action
        result == applied.result
        wrapped(type, value) == [id |-> applied.id, type |-> type, action |-> value,
                                 transaction |-> applied.transaction]
    IN /\ action = WireString("CreateAccount") =>
            result = wrapped("CreateAccount", EmptyObject)
       /\ (~action.string /\ Len(action.entries) = 1) =>
            IF action.entries[1].key \in NearActionTypes
            THEN result = wrapped(action.entries[1].key, action.entries[1].value)
            ELSE IsThrown(result)
       /\ (action # WireString("CreateAccount") /\ ObjectKeys(action) = << >>) =>
            IsThrown(result)
       /\ (action # WireString("CreateAccount") /\ ObjectKeys(action) # << >>
             /\ ObjectKeys(action)[1] \notin NearActionTypes) => IsThrown(result)
       /\ ~IsThrown(result) => result.type \in NearActionTypes

\* an object with the single key Transfer has been decoded
C23_Witness ==
  /\ applied.function = "wrapAction"
  /\ applied.action = WireObject(<< [key |-> "Transfer", value |-> "payload"] >>)
  /\ applied.result = [id |-> 1, type |-> "Transfer", action |-> "payload",
                       transaction |-> "txB"]

(***************************************************************************)
(* filterAction(s) and filterTransaction(s).  filterOrFilters is undefined,*)
(* one filter or an array of filters; a filter field that is not set is    *)
(* NoValue.                                                                *)
(***************************************************************************)
NoFilters == [form |-> "undefined", filters |-> << >>]
OneFilter(filter) == [form |-> "one", filters |-> << filter >>]
FilterArray(filters) == [form |-> "array", filters |-> filters]

\* filter | filter[] | undefined over a set of filters
FilterOrFilters(filters) ==
  {NoFilters, FilterArray(<< >>)}
  \cup {OneFilter(f) : f \in filters}
  \cup {FilterArray(<< f >>) : f \in filters}
  \cup {FilterArray(<< f, g >>) : f \in filters, g \in filters}

\* the action filters and the lists of actions of a block
ActionFilters == [type : {NoValue, "Transfer", "Stake"}]
FilteredTypes == {"Transfer", "Stake", "AddKey"}
NearActions ==
  {<< >>}
  \cup {<< [id |-> 0, type |-> a] >> : a \in FilteredTypes}
  \cup {<< [id |-> 0, type |-> a], [id |-> 1, type |-> b] >> :
          a \in FilteredTypes, b \in FilteredTypes}

\* the transaction filters and the lists of transactions of a block
TransactionFilters == [sender : {NoValue, "alice"}, receiver : {NoValue, "bob"}]
Signers == {"alice", "carol"}
NearTransactions ==
  {<< >>}
  \cup {<< [signer_id |-> a, receiver_id |-> "bob"] >> : a \in Signers}
  \cup {<< [signer_id |-> a, receiver_id |-> "bob"],
           [signer_id |-> b, receiver_id |-> "dave"] >> : a \in Signers, b \in Signers}

\* !filterOrFilters || (filterOrFilters instanceof Array && length === 0)
NothingToFilterBy(filterOrFilters) ==
  \/ filterOrFilters.form = "undefined"
  \/ filterOrFilters.form = "array" /\ filterOrFilters.filters = << >>

\* a filter that passes every action
filterActionOfAnyType(action, filter) == TRUE

\* filterAction(action, filter), the filter being set
filterAction(action, filter) ==
  IF filter.type # NoValue THEN action.type = filter.type ELSE TRUE

\* filterActions(actions, filterOrFilters)
filterActions(actions, filterOrFilters) ==
  IF NothingToFilterBy(filterOrFilters) THEN actions
  ELSE LET filters == filterOrFilters.filters
       IN SelectSeq(actions,
                    LAMBDA action : \E i \in DOMAIN filters : filterAction(action, filters[i]))

\* filterTransaction(transaction, filter): return true
filterTransaction(transaction, filter) == TRUE

\* filterTransactions(transactions, filterOrFilters)
filterTransactions(transactions, filterOrFilters) ==
  IF NothingToFilterBy(filterOrFilters) THEN transactions
  ELSE LET filters == filterOrFilters.filters
       IN SelectSeq(transactions,
                    LAMBDA transaction :
                      \E i \in DOMAIN filters : filterTransaction(transaction, filters[i]))

ApplyFilterActions(actions, filterOrFilters) ==
  /\ applied = NotApplied
  /\ applied' = [function |-> "filterActions", actions |-> actions,
                 filterOrFilters |-> filterOrFilters,
                 result |-> filterActions(actions, filterOrFilters)]
  /\ FunctionsFrame

ApplyFilterTransactions(transactions, filterOrFilters) ==
  /\ applied = NotApplied
  /\ applied' = [function |-> "filterTransactions", transactions |-> transactions,
                 filterOrFilters |-> filterOrFilters,
                 result |-> filterTransactions(transactions, filterOrFilters)]
  /\ FunctionsFrame

\* the indices of a list's items that satisfy a test, and one list being
\* the items of another at a set of indices, in order
RECURSIVE ItemsAt(_, _, _)
ItemsAt(list, indices, i) ==
  IF i > Len(list) THEN << >>
  ELSE (IF i \in indices THEN << list[i] >> ELSE << >>) \o ItemsAt(list, indices, i + 1)

\* C24: filterActions gives the input list back when the filter is undefined
\* or an empty list; otherwise it gives, in input order, exactly the actions
\* that some filter passes, a filter passing an action iff it has no type or
\* its type is the action's.  filterTransactions does the same with a test
\* that passes every transaction.
C24_FilterListsByAnyFilter ==
  /\ applied.function = "filterActions" =>
       LET filters == applied.filterOrFilters.filters
           passes(action) == \E i \in DOMAIN filters :
                               filters[i].type = NoValue \/ filters[i].type = action.type
           kept == {i \in DOMAIN applied.actions : passes(applied.actions[i])}
       IN IF applied.filterOrFilters = NoFilters \/ filters = << >>
          THEN applied.result = applied.actions
          ELSE applied.result = ItemsAt(applied.actions, kept, 1)
  /\ applied.function = "filterTransactions" =>
       applied.result = applied.transactions

\* of a Transfer and a Stake, two filters have kept the Stake
C24_Witness ==
  /\ applied.function = "filterActions"
  /\ applied.filterOrFilters = FilterArray(<< [type |-> "Stake"], [type |-> "Stake"] >>)
  /\ applied.actions = << [id |-> 0, type |-> "Transfer"], [id |-> 1, type |-> "Stake"] >>
  /\ applied.result = << [id |-> 1, type |-> "Stake"] >>

(***************************************************************************)
(* buildDictionaryQueryEntries applied to projects of one or two runtime   *)
(* datasources, with and without a dynamic datasource.                     *)
(***************************************************************************)
\* the handlers of the projects
ProjectHandlers ==
  {BlockModulo(2), BlockEvery, BlockCron, TxFrom("alice"), TxBetween("alice", "bob"),
   ActionOf("Transfer"), ActionWith("FunctionCall", "method_name")}

\* the datasources of the projects: one handler, or two
ProjectDs ==
  {RuntimeDs(b, << h >>) : b \in {1, 3}, h \in ProjectHandlers}
  \cup {RuntimeDs(b, << h, g >>) :
          b \in {1, 3}, h \in ProjectHandlers, g \in {BlockModulo(2), TxFrom("alice")}}

\* project.dataSources: one datasource, or one from block 1 and one from block 3
Projects ==
  {<< ds >> : ds \in ProjectDs}
  \cup {<< RuntimeDs(1, << h >>), RuntimeDs(3, << g >>) >> :
          h \in ProjectHandlers, g \in ProjectHandlers}

\* templateDynamicDatasouces
DynamicDs == { << >>, << TemplateDs(2) >> }

\* the entry a custom datasource's processor gives for its handler
ProcessorQuery ==
  [entity |-> "actions", conditions |-> {[field |-> "plugin", value |-> "bob"]}]

\* what processor.dictionaryQuery returns: an entry, or undefined
ProcessorQueries == {NoQueryEntry, ProcessorQuery}

\* projects with a custom datasource, alone or after a runtime datasource
CustomProjects ==
  {<< CustomDs(1, << TxFrom("bob") >>, << q >>) >> : q \in ProcessorQueries}
  \cup {<< RuntimeDs(1, << TxFrom("alice") >>), CustomDs(b, << TxFrom("bob") >>, << q >>) >> :
          b \in {1, 3}, q \in ProcessorQueries}

\* templateDynamicDatasouces with a datasource made from a custom template
CustomDynamicDs ==
  {<< CustomDs(2, << TxFrom("bob") >>, << q >>) >> : q \in ProcessorQueries}

ApplyBuildDictionaryQueryEntries(project, templates, startBlock) ==
  /\ applied = NotApplied
  /\ applied' = [function |-> "buildDictionaryQueryEntries", project |-> project,
                 templates |-> templates, startBlock |-> startBlock,
                 result |-> buildDictionaryQueryEntriesOf(project, templates, startBlock)]
  /\ FunctionsFrame

\* the handlers of the datasources that start at or below a height
HandlersFrom(dataSources, startBlock) ==
  {h \in SeqToSet(FlattenHandlers(dataSources)) :
     \E i \in DOMAIN dataSources :
       /\ dataSources[i].startBlock <= startBlock
       /\ h \in SeqToSet(dataSources[i].handlers)}

\* C25: buildDictionaryQueryEntries returns the empty list whenever a
\* datasource that starts at or below the height has a block handler
\* without a filter or without a modulo, and no entry it returns comes from
\* a block handler.
C25_BlockHandlerWithoutModuloAbandons ==
  applied.function = "buildDictionaryQueryEntries" =>
    LET handlers == HandlersFrom(applied.project \o applied.templates, applied.startBlock)
    IN /\ (\E h \in handlers : h.kind = "Block" /\ (~h.hasFilter \/ h.modulo = Undefined)) =>
            applied.result = {}
       /\ \A entry \in applied.result : entry.entity \in {"transactions", "actions"}
       /\ (\A h \in handlers : h.kind = "Block") => applied.result = {}

\* a block handler with a cron filter and no modulo, in the second
\* datasource, has emptied the entries of the first one's transaction handler
C25_Witness ==
  /\ applied.function = "buildDictionaryQueryEntries"
  /\ applied.project = << RuntimeDs(1, << TxFrom("alice") >>), RuntimeDs(3, << BlockCron >>) >>
  /\ applied.startBlock = 3
  /\ applied.result = {}

\* C26: every entry of buildDictionaryQueryEntries comes from a handler in
\* this way: a transaction handler gives entity 'transactions' with one
\* equalTo condition for each of sender and receiver that is set and no
\* other; an action handler gives entity 'actions' with the single equalTo
\* condition on type.
C26_EntriesHaveNamedConditionsOnly ==
  applied.function = "buildDictionaryQueryEntries" =>
    LET handlers == HandlersFrom(applied.project \o applied.templates, applied.startBlock)
        named(h) ==
          IF h.kind = "Transaction"
          THEN [entity |-> "transactions",
                conditions |->
                  (IF h.sender # NoValue
                   THEN {[field |-> "sender", value |-> h.sender]} ELSE {})
                  \cup (IF h.receiver # NoValue
                        THEN {[field |-> "receiver", value |-> h.receiver]} ELSE {})]
          ELSE [entity |-> "actions",
                conditions |-> {[field |-> "type", value |-> h.type]}]
    IN \A entry \in applied.result \ {ProcessorQuery} :
         \E h \in handlers : h.kind \in {"Transaction", "Action"} /\ entry = named(h)

(***************************************************************************)
(* ProjectService.getAllDataSources applied to the projects above and the  *)
(* dynamic datasources dynamicDsService gives.                             *)
(***************************************************************************)
\* dynamicDsService.getDynamicDatasources(): in the order of creation
CreatedDs == { << >>, << TemplateDs(2) >>, << TemplateDs(3), TemplateDs(2) >> }

\* a list of datasources that is handed on whole
getAllDataSourcesUnfiltered(project, dynamicDs, blockHeight) == project \o dynamicDs

\* getAllDataSources(blockHeight)
getAllDataSources(project, dynamicDs, blockHeight) ==
  SelectSeq(project \o dynamicDs, LAMBDA ds : ds.startBlock <= blockHeight)

\* WorkerService.processBlock(height) asks for getAllDataSources(height) and
\* hands the list to indexerManager.indexBlock
ApplyGetAllDataSources(project, dynamicDs, height) ==
  /\ applied = NotApplied
  /\ applied' = [function |-> "getAllDataSources", project |-> project,
                 dynamicDs |-> dynamicDs, blockHeight |-> height,
                 result |-> getAllDataSources(project, dynamicDs, height)]
  /\ FunctionsFrame

\* C27: getAllDataSources(height) gives the static datasources that start
\* at or below the height, in their order, followed by the dynamic ones
\* that do, in theirs, and so no datasource that starts above the height.
C27_DataSourcesStartedByHeight ==
  applied.function = "getAllDataSources" =>
    LET started(list) == {i \in DOMAIN list : list[i].startBlock <= applied.blockHeight}
    IN /\ applied.result =
            ItemsAt(applied.project, started(applied.project), 1)
              \o ItemsAt(applied.dynamicDs, started(applied.dynamicDs), 1)
       /\ \A i \in DOMAIN applied.result :
            applied.result[i].startBlock <= applied.blockHeight

\* at height 2 the static datasource of block 3 and the dynamic one of
\* block 3 are left out, the dynamic one of block 2 is kept
C27_Witness ==
  /\ applied.function = "getAllDataSources"
  /\ applied.blockHeight = 2
  /\ applied.project = << RuntimeDs(1, << TxFrom("alice") >>), RuntimeDs(3, << BlockEvery >>) >>
  /\ applied.dynamicDs = << TemplateDs(3), TemplateDs(2) >>
  /\ applied.result = << RuntimeDs(1, << TxFrom("alice") >>), TemplateDs(2) >>

(***************************************************************************)
(* asSecondLayerHandlerProcessor_1_0_0.  A handler processor is a record   *)
(* of its specVersion, its baseHandlerKind and its two functions.  A       *)
(* function is the record of how it is called: a 0.0.0 function takes its  *)
(* arguments by position, a 1.0.0 function takes one params object, and    *)
(* the adapter's arrow functions hold the function they call, the params   *)
(* they pass it in order, and what they do with the result.                *)
(***************************************************************************)
SpecVersions == {NoValue, "1.0.0", "0.0.0", "2.0.0"}

\* the Error a processor of another version raises
UnsupportedVersion == Thrown("Unsupported ds processor version")

\* the functions the processors of the model are written with
Positional(fn) == [takes |-> "positional", fn |-> fn]
WithParams(fn) == [takes |-> "params", fn |-> fn]

\* a JavaScript array, as against a single value
Array(items) == [items |-> items]

\* filterProcessor(filter, input, ds) of a 0.0.0 processor
filterProcessor_0_0_0(fn, filter, input, ds) ==
  IF fn = "everything" THEN TRUE
  ELSE filter = "f1" /\ input = "i1" /\ ds = "ds1"

\* transformer(input, ds, api, assets) of a 0.0.0 processor: one value, or
\* a rejection
transformer_0_0_0(fn, input, ds, api, assets) ==
  IF fn = "rejects" /\ input = "i2" THEN Thrown("transformer failed")
  ELSE Returned([input |-> input, ds |-> ds, api |-> api, assets |-> assets])

\* filterProcessor(params) of a 1.0.0 processor
filterProcessor_1_0_0(fn, params) ==
  params.filter = "f1"

\* transformer(params) of a 1.0.0 processor: a list of values
transformer_1_0_0(fn, params) ==
  Returned(Array(<< [input |-> params.input, part |-> 1],
                    [input |-> params.input, part |-> 2] >>))

\* processor.filterProcessor called with params
callFilterProcessor(processor, params) ==
  LET f == processor.filterProcessor
  IN IF "calls" \in DOMAIN f
     THEN filterProcessor_0_0_0(f.calls.fn, params[f.passes[1]],
                                params[f.passes[2]], params[f.passes[3]])
     ELSE filterProcessor_1_0_0(f.fn, params)

\* processor.transformer called with params, once its promise has settled
callTransformer(processor, params) ==
  LET t == processor.transformer
  IN IF "calls" \in DOMAIN t
     THEN LET res == transformer_0_0_0(t.calls.fn, params[t.passes[1]],
                                       params[t.passes[2]], params[t.passes[3]],
                                       params[t.passes[4]])
          IN IF IsThrown(res) \/ t.then = "same" THEN res
             ELSE Returned(Array(<< res.returned >>))
     ELSE transformer_1_0_0(t.fn, params)

\* an arrow function that hands the transformer's value on as it is
transformerUnlifted(processor) ==
  [takes |-> "params", calls |-> processor.transformer,
   passes |-> << "input", "ds", "api", "assets" >>, then |-> "same"]

\* (params) => processor.filterProcessor(params.filter, params.input, params.ds)
filterProcessorAdapted(processor) ==
  [takes |-> "params", calls |-> processor.filterProcessor,
   passes |-> << "filter", "input", "ds" >>]

\* (params) => processor.transformer(params.input, params.ds, params.api,
\* params.assets).then((res) => [res])
transformerAdapted(processor) ==
  [takes |-> "params", calls |-> processor.transformer,
   passes |-> << "input", "ds", "api", "assets" >>, then |-> "array"]

isSecondLayerHandlerProcessor_0_0_0(processor) ==
  processor.specVersion = NoValue

isSecondLayerHandlerProcessor_1_0_0(processor) ==
  processor.specVersion = "1.0.0"

asSecondLayerHandlerProcessor_1_0_0(processor) ==
  IF isSecondLayerHandlerProcessor_1_0_0(processor) THEN Returned(processor)
  ELSE IF ~isSecondLayerHandlerProcessor_0_0_0(processor) THEN UnsupportedVersion
  ELSE Returned([processor EXCEPT !.specVersion = "1.0.0",
                                  !.filterProcessor = filterProcessorAdapted(processor),
                                  !.transformer = transformerAdapted(processor)])

\* the processors a datasource plugin may export
HandlerProcessors ==
  {[specVersion |-> version, baseHandlerKind |-> kind,
    filterProcessor |-> Positional(f), transformer |-> Positional(t)] :
     version \in SpecVersions \ {"1.0.0"},
     kind \in {"near/BlockHandler", "near/ActionHandler"},
     f \in {"everything", "firstOfEach"}, t \in {"entity", "rejects"}}
  \cup {[specVersion |-> "1.0.0", baseHandlerKind |-> kind,
         filterProcessor |-> WithParams("byFilter"),
         transformer |-> WithParams("parts")] :
          kind \in {"near/BlockHandler", "near/ActionHandler"}}

\* the params the indexer calls a 1.0.0 processor with
HandlerParams ==
  [filter : {"f1", "f2"}, input : {"i1", "i2"}, ds : {"ds1"},
   api : {"api"}, assets : {"assets"}]

\* the processor is brought to 1.0.0, and so is what that gives; the
\* functions of the result are called with params
ApplyAsSecondLayerHandlerProcessor(processor, params) ==
  /\ applied = NotApplied
  /\ LET result == asSecondLayerHandlerProcessor_1_0_0(processor)
     IN applied' = [function |-> "asSecondLayerHandlerProcessor_1_0_0",
                    processor |-> processor, params |-> params,
                    result |-> result,
                    again |-> IF IsThrown(result) THEN result
                              ELSE asSecondLayerHandlerProcessor_1_0_0(result.returned),
                    filtered |-> IF IsThrown(result) THEN result
                                 ELSE Returned(callFilterProcessor(result.returned, params)),
                    transformed |-> IF IsThrown(result) THEN result
                                    ELSE callTransformer(result.returned, params)]
  /\ FunctionsFrame

\* C30: asSecondLayerHandlerProcessor_1_0_0 raises for a specVersion other
\* than undefined and '1.0.0' and otherwise returns a processor of
\* specVersion '1.0.0': the 1.0.0 processor itself; for undefined the
\* processor with its other fields kept, whose filterProcessor gives what
\* the old one gives for the params' filter, input and ds and whose
\* transformer gives [r] where the old one gives r for the params' input,
\* ds, api and assets.  Applying it to its result gives the same result.
C30_AdaptsToOneZeroZero ==
  applied.function = "asSecondLayerHandlerProcessor_1_0_0" =>
    LET processor == applied.processor
        params == applied.params
        old == transformer_0_0_0(processor.transformer.fn, params.input,
                                 params.ds, params.api, params.assets)
    IN /\ processor.specVersion \notin {NoValue, "1.0.0"} =>
            applied.result = UnsupportedVersion
       /\ processor.specVersion \in {NoValue, "1.0.0"} =>
            /\ ~IsThrown(applied.result)
            /\ applied.result.returned.specVersion = "1.0.0"
            /\ applied.again = applied.result
       /\ processor.specVersion = "1.0.0" =>
            applied.result.returned = processor
       /\ processor.specVersion = NoValue =>
            /\ applied.result.returned.baseHandlerKind = processor.baseHandlerKind
            /\ applied.filtered =
                 Returned(filterProcessor_0_0_0(processor.filterProcessor.fn,
                                                params.filter, params.input, params.ds))
            /\ ~IsThrown(old) =>
                 applied.transformed = Returned(Array(<< old.returned >>))
            /\ IsThrown(old) => applied.transformed = old

\* a processor without specVersion whose transformer gave one value: the
\* adapted transformer gives the list of that value, the adapted
\* filterProcessor what the old one gives
C30_Witness ==
  /\ applied.function = "asSecondLayerHandlerProcessor_1_0_0"
  /\ applied.processor.specVersion = NoValue
  /\ applied.processor.filterProcessor.fn = "firstOfEach"
  /\ applied.params.filter = "f1" /\ applied.params.input = "i1"
  /\ applied.filtered = Returned(TRUE)
  /\ applied.transformed =
       Returned(Array(<< [input |-> "i1", ds |-> "ds1", api |-> "api",
                          assets |-> "assets"] >>))
  /\ applied.again = applied.result

(***************************************************************************)
(* SafeJsonRpcProvider: the provider made for one height.  A request is    *)
(* what reaches the JsonRpcProvider method underneath: the method, the     *)
(* block it is asked about and the other arguments.                        *)
(***************************************************************************)
\* the methods SafeJsonRpcProvider overrides
SafeMethods ==
  {"block", "blockChanges", "validators", "accessKeyChanges",
   "singleAccessKeyChanges", "accountChanges", "contractStateChanges",
   "contractCodeChanges", "gasPrice"}

\* { blockId: height }, and the height passed as it is
BlockId(height) == [blockId |-> height]
BareHeight(height) == [height |-> height]

\* what a caller may put where the method underneath takes a block
NoReference == [reference |-> "none"]
BlockReferences ==
  {NoReference, [finality |-> "final"], [finality |-> "optimistic"]}
    \cup {BlockId(h) : h \in 1..3}

\* a block reference taken from the caller when there is one
callersReference(height, blockQuery) ==
  IF blockQuery = NoReference THEN BlockId(height) ELSE blockQuery

\* { blockId: this.height }, whatever the caller passed
pinnedReference(height, blockQuery) ==
  BlockId(height)

\* new SafeJsonRpcProvider(height, connection).<method>(arguments, blockQuery)
SafeJsonRpcProvider_request(height, method, arguments, blockQuery) ==
  IF method \in {"validators", "gasPrice"}
  THEN [method |-> method, block |-> BareHeight(height), arguments |-> << >>]
  ELSE IF method \in {"block", "blockChanges"}
  THEN [method |-> method, block |-> BlockId(height), arguments |-> << >>]
  ELSE [method |-> method, block |-> pinnedReference(height, blockQuery),
        arguments |-> arguments]

\* apiService.safeApi(height) is handed to two callers, who call the same
\* method with their own block references
ApplySafeApi(height, method, arguments, first, second) ==
  /\ applied = NotApplied
  /\ applied' = [function |-> "safeApi", height |-> height, method |-> method,
                 arguments |-> arguments, first |-> first, second |-> second,
                 requests |-> << SafeJsonRpcProvider_request(height, method, arguments, first),
                                 SafeJsonRpcProvider_request(height, method, arguments, second) >>]
  /\ FunctionsFrame

\* C31: every call of one of the nine methods through the provider made for
\* height H asks about height H, whatever block reference the caller
\* passes, and two callers with different references make the same request.
C31_RequestsPinnedToHeight ==
  applied.function = "safeApi" =>
    /\ \A i \in 1..2 :
         /\ applied.requests[i].method = applied.method
         /\ applied.requests[i].block \in {BlockId(applied.height), BareHeight(applied.height)}
    /\ applied.requests[1] = applied.requests[2]

\* contractStateChanges through the provider of height 2, one caller asking
\* for block 3, the other for the optimistic head
C31_Witness ==
  /\ applied.function = "safeApi"
  /\ applied.height = 2
  /\ applied.method = "contractStateChanges"
  /\ applied.first = BlockId(3)
  /\ applied.second = [finality |-> "optimistic"]
  /\ applied.requests[1].block = BlockId(2)
  /\ applied.requests[2].block = BlockId(2)

FunctionsNext ==
  \/ \E action \in WireActions, id \in 0..1, transaction \in WrappedTransactions :
       ApplyWrapAction(action, id, transaction)
  \/ \E actions \in NearActions, filterOrFilters \in FilterOrFilters(ActionFilters) :
       ApplyFilterActions(actions, filterOrFilters)
  \/ \E transactions \in NearTransactions,
        filterOrFilters \in FilterOrFilters(TransactionFilters) :
       ApplyFilterTransactions(transactions, filterOrFilters)
  \/ \E project \in Projects \cup CustomProjects,
        templates \in DynamicDs \cup CustomDynamicDs, startBlock \in 1..3 :
       ApplyBuildDictionaryQueryEntries(project, templates, startBlock)
  \/ \E project \in Projects, dynamicDs \in CreatedDs, height \in 1..3 :
       ApplyGetAllDataSources(project, dynamicDs, height)
  \/ \E processor \in HandlerProcessors, params \in HandlerParams :
       ApplyAsSecondLayerHandlerProcessor(processor, params)
  \/ \E height \in 1..3, method \in SafeMethods,
        arguments \in {<< >>, << "alice.near" >>},
        first \in BlockReferences, second \in BlockReferences :
       ApplySafeApi(height, method, arguments, first, second)

SpecFunctions == FunctionsInit /\ [][FunctionsNext]_vars

(***************************************************************************)
(* The chain head polls beside the scheduler loop, with what each poll     *)
(* emitted.  applied holds the latest poll: the head the RPC gave          *)
(* (Undefined when it threw), the events emitted, whether an earlier poll  *)
(* had failed, and blockDispatcher.latestBufferedHeight at the poll.       *)
(***************************************************************************)
Polls == {"getFinalizedBlockHead", "getBestBlockHead"}

\* the runs of the scheduler off the dictionary, one block a batch
HeadsConfigs ==
  {config \in Configs : /\ ~config.dictionary
                        /\ config.bypassBlocks = << >>
                        /\ ~config.scaleBatchSize}

Polled(function, head, emitted) ==
  [function |-> function, head |-> head, emitted |-> emitted,
   afterFailure |-> (applied # NotApplied
                     /\ (applied.head = Undefined \/ applied.afterFailure)),
   buffered |-> latestBufferedHeight]

\* setInterval(() => void this.getFinalizedBlockHead(), BLOCK_TIME_VARIANCE)
pollFinalizedBlockHead(head) ==
  /\ finalizedBlockHead(head)
  /\ applied' = Polled("getFinalizedBlockHead", head, finalizedBlockHeadEvents(head))
  /\ UNCHANGED << cronSchedule, blockFilterResult >>
  /\ UNCHANGED << workerVars, apiVars >>

\* setInterval(() => void this.getBestBlockHead(), BLOCK_TIME_VARIANCE)
pollBestBlockHead(head) ==
  /\ bestBlockHead(head)
  /\ applied' = Polled("getBestBlockHead", head, bestBlockHeadEvents(head))
  /\ UNCHANGED << cronSchedule, blockFilterResult >>
  /\ UNCHANGED << workerVars, apiVars >>

HeadsInit ==
  /\ cfg \in HeadsConfigs
  /\ FetchServiceConstructed
  /\ WorkerServiceConstructed
  /\ ApiServiceConstructed
  /\ UtilitiesConstructed

HeadsNext ==
  \/ \E finalized \in HeadsFrom(Undefined), best \in BestHeadsFrom(Undefined) :
       init(finalized, best, FALSE)
  \/ \E head \in HeadsFrom(latestFinalizedHeight) : pollFinalizedBlockHead(head)
  \/ \E head \in BestHeadsFrom(latestBestHeight) : pollBestBlockHead(head)
  \/ onApplicationShutdown
  \/ Wait
  \/ ScanWithoutDictionary
  \/ Exit
  \/ \E created \in BOOLEAN : processBlock(created)
  \/ resetForNewDs

SpecHeads == HeadsInit /\ [][HeadsNext]_vars

\* the step of a poll
PollStep == applied' # applied /\ applied'.function \in Polls

\* C28: a poll whose RPC call raises changes neither latestFinalizedHeight
\* nor latestBestHeight, emits no event, and leaves isShutdown and the
\* scheduler loop where they were; a poll that follows a failed one and gets
\* a head records it and emits its events as any other poll does.
C28_FailedPollIsNotFatal ==
  /\ [][PollStep /\ applied'.head = Undefined =>
          /\ latestFinalizedHeight' = latestFinalizedHeight
          /\ latestBestHeight' = latestBestHeight
          /\ applied'.emitted = {}
          /\ isShutdown' = isShutdown /\ ~isShutdown
          /\ pc' = pc /\ queue' = queue
          /\ latestBufferedHeight' = latestBufferedHeight]_vars
  /\ [][PollStep /\ applied'.head # Undefined /\ applied'.afterFailure =>
          /\ applied'.function = "getFinalizedBlockHead" =>
               /\ latestFinalizedHeight' = applied'.head
               /\ (latestFinalizedHeight # applied'.head /\ ~cfg.unfinalizedBlocks) =>
                    [event |-> "BlockTarget", height |-> applied'.head] \in applied'.emitted
          /\ applied'.function = "getBestBlockHead" =>
               /\ latestBestHeight' = applied'.head
               /\ latestBestHeight # applied'.head =>
                    [event |-> "BlockBest", height |-> applied'.head] \in applied'.emitted]_vars

\* the latest poll failed with both heads recorded, and the scheduler loop
\* has enqueued since
C28_Witness ==
  /\ applied.function \in Polls
  /\ applied.head = Undefined
  /\ latestFinalizedHeight # Undefined
  /\ latestBestHeight # Undefined
  /\ ~isShutdown
  /\ latestBufferedHeight # applied.buffered
  /\ queue # << >>

(***************************************************************************)
(* Shutdown beside the scheduler loop on the dictionary.  applied holds    *)
(* the onApplicationShutdown call: whether init had registered the poll    *)
(* intervals, and where the loop stood.  The heads are those init          *)
(* recorded: the polls that move them are followed in SpecHeads.           *)
(***************************************************************************)
\* the runs of the scheduler on a dictionary of the chain that holds no
\* block of the project's
ShutdownConfigs ==
  {config \in Configs : /\ config.dictionary
                        /\ config.dictionaryGenesis
                        /\ ~config.unfinalizedBlocks
                        /\ config.project = "tx"
                        /\ config.bypassBlocks = << >>
                        /\ config.dictionaryBlocks = {}}

\* Nest calls onApplicationShutdown when the application closes
shutdown ==
  /\ applicationShutdown
  /\ applied' = [function |-> "onApplicationShutdown",
                 registered |-> ~deleteIntervalRaises, pc |-> pc]
  /\ UNCHANGED << cronSchedule, blockFilterResult >>
  /\ UNCHANGED << workerVars, apiVars >>

\* scopedDictionaryEntries settles and the cycle goes on
DictionaryReturns ==
  \/ DiscardDictionary
  \/ ScanWithDictionary
  \/ \E outcome \in {"response", "undefined", "throw"} : FallBackFromDictionary(outcome)

ShutdownInit ==
  /\ cfg \in ShutdownConfigs
  /\ FetchServiceConstructed
  /\ WorkerServiceConstructed
  /\ ApiServiceConstructed
  /\ UtilitiesConstructed

ShutdownNext ==
  \/ \E finalized \in HeadsFrom(Undefined), best \in BestHeadsFrom(Undefined),
        metadata \in BOOLEAN :
       init(finalized, best, metadata)
  \/ shutdown
  \/ Wait
  \/ QueryDictionary
  \/ ScanWithoutDictionary
  \/ DiscardDictionary
  \/ ScanWithDictionary
  \/ \E outcome \in {"response", "undefined", "throw"} : FallBackFromDictionary(outcome)
  \/ Exit
  \/ \E created \in BOOLEAN : processBlock(created)
  \/ resetForNewDs
  \/ \E height \in DictionaryHeights : DictionaryAdvances(height)

\* the loop's continuation runs once the promise it awaits settles: the
\* delay, and the dictionary query, which resolves or rejects
SpecShutdown ==
  /\ ShutdownInit
  /\ [][ShutdownNext]_vars
  /\ WF_vars(Exit)
  /\ WF_vars(DictionaryReturns)

\* a call of blockDispatcher.enqueueBlocks by the loop
Enqueues == lastCall' # lastCall /\ lastCall'.path # "none"

\* fillNextBlockBuffer has ended
LoopEnded == pc \in {"done", "crashed"}

\* C29: onApplicationShutdown sets isShutdown whether or not init had
\* registered the poll intervals; from then on the flag stays set, the loop
\* starts no cycle, enqueues only as the end of the cycle whose dictionary
\* query was in flight, and fillNextBlockBuffer ends.
C29_ShutdownEndsTheLoop ==
  /\ [](applied.function = "onApplicationShutdown" => isShutdown)
  /\ [][isShutdown =>
          /\ isShutdown'
          /\ pc' = "query" => pc = "query"
          /\ Enqueues => pc = "query" /\ pc' \in {"loop", "crashed"}
          /\ pc = "loop" => pc' \in {"loop", "done"}
          /\ LoopEnded => pc' = pc]_vars
  /\ (isShutdown /\ pc \in {"loop", "query"}) ~> LoopEnded

\* shutdown came with the dictionary query in flight; the cycle has made its
\* enqueue and the loop has returned
C29_Witness ==
  /\ applied.function = "onApplicationShutdown"
  /\ applied.registered
  /\ applied.pc = "query"
  /\ lastCall.path = "dictionary"
  /\ pc = "done"

(***************************************************************************)
(* The dictionary's limit and the modulo heights of the query window.      *)
(***************************************************************************)
\* a run whose dictionary holds more matching heights in one query window
\* than a response carries, with a modulo height above them, and a run
\* whose dictionary holds none
DenseConfigs ==
  {Config("sparse", 2, FALSE, TRUE, TRUE, << >>, {2, 3, 4, 5, 6, 7}),
   Config("tx", 1, FALSE, TRUE, TRUE, << >>, {})}

DictionaryInit ==
  /\ cfg \in DenseConfigs
  /\ FetchServiceConstructed
  /\ WorkerServiceConstructed
  /\ ApiServiceConstructed
  /\ UtilitiesConstructed

DictionaryNext ==
  \/ \E finalized \in HeadsFrom(Undefined), best \in BestHeadsFrom(Undefined),
        metadata \in BOOLEAN :
       init(finalized, best, metadata)
  \/ \E head \in HeadsFrom(latestFinalizedHeight) : getFinalizedBlockHead(head)
  \/ \E head \in BestHeadsFrom(latestBestHeight) : getBestBlockHead(head)
  \/ onApplicationShutdown
  \/ Wait
  \/ QueryDictionary
  \/ ScanWithoutDictionary
  \/ DiscardDictionary
  \/ ScanWithDictionary
  \/ \E outcome \in {"response", "undefined", "throw"} : FallBackFromDictionary(outcome)
  \/ Exit
  \/ \E created \in BOOLEAN : processBlock(created)
  \/ resetForNewDs
  \/ \E height \in DictionaryHeights : DictionaryAdvances(height)

SpecDictionary == DictionaryInit /\ [][DictionaryNext]_vars

\* the heights of [start, upTo] the dictionary holds for the entries of a query
HeldByDictionary(entries, start, upTo) ==
  {h \in UNION {EntryHeights(e) : e \in entries} :
     h >= start /\ h <= upTo /\ h <= lastProcessedHeight}

\* an enqueue from a dictionary response
EnqueuesFromDictionary ==
  /\ pc = "query"
  /\ lastCall' # lastCall
  /\ lastCall'.path \in {"dictionary", "dictionaryEmpty"}

\* C32: an enqueue from a dictionary response that sets latestBufferedHeight
\* to L passes every height of [start, L] that the dictionary holds for the
\* query's entries, before the bypass list is taken out: none is left
\* behind L.
C32_NoMatchLeftBehindBufferedHeight ==
  [][EnqueuesFromDictionary /\ pc' = "loop" =>
       \A h \in HeldByDictionary(lastCall'.entries, lastCall'.start, latestBufferedHeight') :
          \/ h \in SeqToSet(lastCall'.raw)
          \/ h \in SeqToSet(lastCall'.bypass)]_vars

\* C33: no enqueueBlocks call is made while the latest target height
\* (latestFinalizedHeight, or latestBestHeight in unfinalized mode) has
\* never been set: every call is made with a target.
C33_NoEnqueueWithoutTarget ==
  Called => lastCall.target # Undefined

(***************************************************************************)
(* The buffered height only goes up between flushes.                       *)
(***************************************************************************)
\* the height the call passes is above the dispatcher's buffered height
AboveBufferedHeight(passed, buffered) ==
  Gt(passed, buffered) \/ buffered = Undefined

\* C34: every enqueueBlocks call of the scheduler, the call with the empty
\* list included, passes a latestBufferedHeight that is strictly greater
\* than the dispatcher's latestBufferedHeight before the call and at least
\* the start height of the scan that makes the call.
C34_BufferedHeightAdvances ==
  [][Enqueues =>
       /\ lastCall'.latestBufferedHeight # NegInfinity
       /\ AboveBufferedHeight(lastCall'.latestBufferedHeight, latestBufferedHeight)
       /\ lastCall'.latestBufferedHeight >= lastCall'.start]_vars

(***************************************************************************)
(* The worker's fetched-block map holds what is fetched and not processed. *)
(***************************************************************************)
\* get numFetchedBlocks(): Object.keys(this.fetchedBlocks).length
numFetchedBlocks ==
  Cardinality({height \in WorkerHeights : fetchedBlocks[height] # "unset"})

\* the step is processBlock taking the block of its height out of the map
TakesFetchedBlock ==
  ~isIndexing /\ isIndexing'

\* the step is processBlock returning the indexing result or the skip response
ReturnsNormally ==
  /\ blockResponse' # blockResponse
  /\ blockResponse'.outcome \in {"indexed", "unavailable"}

\* the step is a fetch of the height settling with its block
StoresFetchedBlock(height) ==
  \E call \in DOMAIN fetchCalls :
    /\ HeightOf(call) = height
    /\ fetchCalls[call].pc = "fetchBlocks"
    /\ fetchCalls'[call].pc = "idle"
    /\ fetchCalls'[call].settled = "block"

FetchCallIds == {1, 2, RepeatedCall}

\* a worker whose chain holds every block, and a repeated call for a height
RefetchInit ==
  /\ cfg = CHOOSE config \in Configs : TRUE
  /\ FetchServiceConstructed
  /\ ApiServiceConstructed
  /\ UtilitiesConstructed
  /\ chain = [height \in WorkerHeights |-> "block"]
  /\ fetchedBlocks = [height \in WorkerHeights |-> "unset"]
  /\ isIndexing = FALSE
  /\ memoryLock = FALSE
  /\ fetchCalls = [call \in FetchCallIds |-> NoFetchCall]
  /\ blockResponse = NoBlockResponse

SpecRefetch == RefetchInit /\ [][WorkerNext]_vars

\* the chain fetch of another call for the same height is in flight
FetchInFlight(call) ==
  \E other \in DOMAIN fetchCalls \ {call} :
    /\ HeightOf(other) = HeightOf(call)
    /\ fetchCalls[other].pc = "fetchBlocks"

\* C36: a fetchBlock call starts a chain fetch of its height only when the
\* height is not held in the fetched-block map and no other fetch of the
\* height is in flight: a height held or in flight is not fetched again.
C36_NoSecondFetch ==
  [][ \A call \in DOMAIN fetchCalls :
        FetchStarts(call) =>
          /\ fetchedBlocks[HeightOf(call)] # "block"
          /\ ~FetchInFlight(call) ]_vars

(***************************************************************************)
(* ApiService.init and the connection pool.                                *)
(***************************************************************************)
\* init has thrown on an endpoint
InitFailed == apiPc \in {"chainIdError", "genesisHashError"}

\* C37: ApiService.init is all-or-nothing for the connection pool: while it
\* runs and when it has failed on an endpoint, the pool holds no connection,
\* those of the endpoints admitted earlier included; when it has succeeded,
\* the pool holds a connection for every endpoint and networkMeta is the
\* metadata of the first endpoint.
C37_PoolAllOrNothing ==
  /\ apiPc # "done" => connectionPool = {}
  /\ apiPc = "done" =>
       /\ connectionPool = DOMAIN network.endpoint
       /\ networkMeta = ConnectionNetworkMeta(network.endpoint[1])

\* init has failed on a later endpoint after it admitted an earlier one
C37_Witness ==
  /\ InitFailed
  /\ endpointToApiIndex # {}
  /\ connectionPool = {}

(***************************************************************************)
(* The dictionary entries cover every handler that is not a modulo one.    *)
(***************************************************************************)
\* the handler at position i of ds is answered by an entry of the list
CoveredByEntries(ds, i, entries) ==
  /\ dsHandlerQueryEntries(ds, i) # {}
  /\ dsHandlerQueryEntries(ds, i) \subseteq entries

\* C38: whenever buildDictionaryQueryEntries(s) returns a list that is not
\* empty, every handler of every datasource that starts at or below s, of
\* the project or dynamic, runtime or custom, is covered by an entry of the
\* list or is a block handler with a modulo.
C38_EntriesCoverEveryHandler ==
  ( /\ applied.function = "buildDictionaryQueryEntries"
    /\ applied.result # {} ) =>
      LET all == applied.project \o applied.templates
      IN \A d \in DOMAIN all :
           all[d].startBlock <= applied.startBlock =>
             \A i \in DOMAIN all[d].handlers :
               \/ IsModuloHandler(all[d].handlers[i])
               \/ CoveredByEntries(all[d], i, applied.result)

(***************************************************************************)
(* Two block handlers with cron filters.  generateTimestampReferenceFor-   *)
(* BlockFilters makes one Cron object for the whole project; fromString    *)
(* sets the expression of that object, and schedule() returns a cursor     *)
(* that keeps the object it was made from and reads its expression at      *)
(* every next() and prev().  cronSchedule holds the cursors by handler;    *)
(* the cron field of a cursor is the expression its Cron object holds.     *)
(***************************************************************************)
\* the block handlers with a timestamp filter
CronHandlers == {1, 2}

\* the period of the handler's own cron string
HandlerCron(handler) == IF handler = 1 THEN 2 ELSE 3

\* no handler has its schedule yet
NoHandlerSchedules == [handlers |-> [handler \in CronHandlers |-> NoSchedule]]

\* a Cron object made for each handler: fromString leaves the others alone
fromStringOnOwnCron(schedule, cron) == schedule

\* cron.fromString(handler.filter.timestamp) on the one Cron object: the
\* cursors made from the object read the new expression from now on
fromString(schedule, cron) ==
  IF schedule = NoSchedule THEN schedule ELSE [schedule EXCEPT !.cron = cron]

\* the handler's filter is compiled: fromString, then schedule()
compileHandler(handler, timestampReference) ==
  /\ cronSchedule.handlers[handler] = NoSchedule
  /\ cronSchedule' =
       [handlers |->
          [other \in CronHandlers |->
             IF other = handler
             THEN Schedule(HandlerCron(handler), timestampReference)
             ELSE fromString(cronSchedule.handlers[other], HandlerCron(handler))]]
  /\ UNCHANGED << blockFilterResult, applied >>
  /\ UNCHANGED << fetchVars, workerVars, apiVars >>

\* filterBlockTimestamp(block, filter) with the filter of the handler
filterBlockTimestampOf(handler, timestamp) ==
  /\ cronSchedule.handlers[handler] # NoSchedule
  /\ cronSchedule' =
       [cronSchedule EXCEPT
          !.handlers[handler] = scheduleAfterFilter(cronSchedule.handlers[handler], timestamp)]
  /\ blockFilterResult' = blockFilterResultOf(cronSchedule.handlers[handler], timestamp)
  /\ UNCHANGED applied
  /\ UNCHANGED << fetchVars, workerVars, apiVars >>

CronHandlersInit ==
  /\ cfg = CHOOSE config \in Configs : TRUE
  /\ FetchServiceConstructed
  /\ WorkerServiceConstructed
  /\ ApiServiceConstructed
  /\ cronSchedule = NoHandlerSchedules
  /\ blockFilterResult = NoBlockFilterResult
  /\ applied = NotApplied

CronHandlersNext ==
  \/ \E handler \in CronHandlers, timestampReference \in ReferenceTimes :
       compileHandler(handler, timestampReference)
  \/ \E handler \in CronHandlers, timestamp \in 0..MaxTime :
       filterBlockTimestampOf(handler, timestamp)

SpecCronHandlers == CronHandlersInit /\ [][CronHandlersNext]_vars

\* C39: the schedules of different block handlers are independent: each
\* follows its own handler's cron expression, and a step that compiles or
\* evaluates the filter of one handler leaves the next slot of every other
\* handler's schedule as it was.
C39_SchedulesAreIndependent ==
  [][ \A handler \in CronHandlers :
        cronSchedule'.handlers[handler] # NoSchedule =>
          /\ cronSchedule'.handlers[handler].cron = HandlerCron(handler)
          /\ ( /\ cronSchedule.handlers[handler] # NoSchedule
               /\ \E other \in CronHandlers \ {handler} :
                    cronSchedule'.handlers[other] # cronSchedule.handlers[other] ) =>
                PeekNext(cronSchedule'.handlers[handler])
                  = PeekNext(cronSchedule.handlers[handler]) ]_vars

============================================================================
